---- MODULE Spec2Model ----
(***************************************************************************)
(* A model of move_base's navigation control loop (MoveBase::executeCb and *)
(* MoveBase::executeCycle), its planner thread (MoveBase::planThread) and  *)
(* MoveBase::reconfigureCB, as interleaved threads over the shared fields  *)
(* of class MoveBase.                                                      *)
(*                                                                         *)
(* Time.  The code compares ros::Time::now() with an anchor plus a         *)
(* duration.  The model keeps, for every anchor, the time elapsed since    *)
(* the anchor was set (its age), counted in ticks and saturated just      *)
(* above the duration it is compared with.  "anchor = now" is              *)
(* "age = 0".  A control cycle is short against a tick: the action Tick    *)
(* lets a tick pass while the control loop sleeps (r.sleep()), while a     *)
(* recovery behaviour runs and while no goal is executed.                  *)
(*                                                                         *)
(* Goals.  What the model keeps of a goal pose is whether it is the goal   *)
(* executeCb is pursuing now ("current", the local variable goal) or an    *)
(* earlier one ("stale").  Accepting a goal makes every earlier one stale. *)
(*                                                                         *)
(* Plans.  planner_plan_, latest_plan_ and controller_plan_ hold the       *)
(* contents of the vector each pointer points to; a pointer swap exchanges *)
(* the contents.                                                           *)
(*                                                                         *)
(* Atomicity.  A step of a thread is one action.  Statements that run      *)
(* under planner_mutex_ are atomic with respect to the other holders of    *)
(* that mutex only; state_, recovery_trigger_, recovery_index_,            *)
(* new_global_plan_, last_valid_plan_ and planning_retries_ are also read  *)
(* and written without the mutex, so the steps are cut wherever another    *)
(* thread's access to them can fall in between.                            *)
(***************************************************************************)
EXTENDS Integers, Sequences, FiniteSets, TLC

\* ------------------------------------------------------------------ bounds
\* recovery_behaviors_.size(): the length of the recovery chain.
NumRecoveries == 1
\* planning_retries_ saturates here, above every limit it is compared with.
RetriesCap == 2

\* ------------------------------------------------- parameters (in ticks)
planner_patience_ == 1
controller_patience_ == 1

\* The configurations Init draws from: planner_frequency_ (ticks^-1),
\* oscillation_timeout_ (ticks), max_planning_retries_,
\* recovery_behavior_enabled_.
Config(f, o, m, r) == [planner_frequency |-> f, oscillation_timeout |-> o,
                       max_planning_retries |-> m,
                       recovery_behavior_enabled |-> r]
Configurations == { Config(0, 1, 1, TRUE),
                    Config(1, 0, -1, FALSE) }

Max(a, b) == IF a >= b THEN a ELSE b
Min(a, b) == IF a <= b THEN a ELSE b

\* An age saturates just above the duration it is compared with; the age of
\* last_oscillation_reset_ is compared with nothing when
\* oscillation_timeout_ is 0 (line 1377).
PlanAgeCap == planner_patience_ + 1
ControlAgeCap == controller_patience_ + 1
OscillationAgeCap(timeout) == IF timeout > 0 THEN timeout + 1 ELSE 0

\* enum MoveBaseState, enum RecoveryTrigger
MoveBaseState == {"PLANNING", "CONTROLLING", "CLEARING"}
RecoveryTrigger == {"PLANNING_R", "CONTROLLING_R", "OSCILLATION_R"}

VARIABLES
  \* fields of class MoveBase
  state_, recovery_trigger_, recovery_index_,
  runPlanner_, planner_goal_, planning_retries_, new_global_plan_,
  planner_plan_, latest_plan_, controller_plan_,
  age_valid_plan, age_valid_control, age_oscillation_reset,
  oscillation_pose_,
  planner_mutex_, configuration_mutex_,
  planner_frequency_, oscillation_timeout_, max_planning_retries_,
  recovery_behavior_enabled_,
  \* executeCb / executeCycle (the action server's thread)
  fsm_pc, fsm_ret,
  \* planThread
  planner_pc, temp_goal, wait_for_wake, notified, timer, start_age,
  attempt_end_age,
  \* reconfigureCB (the dynamic_reconfigure thread)
  reconf_pc, reconf_local,
  \* planService and clearCostmapsService (the service callbacks' thread)
  srv, ccs_pc,
  \* NavfnROS::makePlan (a call of the global planner)
  nav,
  \* the environment
  nodeOk, env,
  \* observation of what the program did (history, never read by the code)
  pubs, vel_last, cyc, outcome, hist

\* The configuration and the environment, which no action writes;
\* oscillation_pose_, which only the head of executeCycle writes; and the
\* state of planService, of clearCostmapsService and of a call of
\* NavfnROS::makePlan, which only they write.
cfgv == <<planner_frequency_, oscillation_timeout_, max_planning_retries_,
          recovery_behavior_enabled_, env, oscillation_pose_, srv, ccs_pc,
          nav>>
bufv == <<planner_plan_, latest_plan_, controller_plan_>>
agev == <<age_valid_plan, age_valid_control, age_oscillation_reset>>
plv  == <<planner_pc, temp_goal, wait_for_wake, timer, start_age, attempt_end_age>>
rcv  == <<reconf_pc, reconf_local>>
fsv  == <<fsm_pc, fsm_ret>>
sessv == <<state_, recovery_trigger_, recovery_index_>>

vars == <<state_, recovery_trigger_, recovery_index_, runPlanner_, planner_goal_,
          planning_retries_, new_global_plan_, planner_plan_, latest_plan_,
          controller_plan_, age_valid_plan, age_valid_control,
          age_oscillation_reset, oscillation_pose_, planner_mutex_,
          configuration_mutex_,
          planner_frequency_, oscillation_timeout_, max_planning_retries_,
          recovery_behavior_enabled_, fsm_pc, fsm_ret, planner_pc,
          temp_goal, wait_for_wake, notified, timer, start_age, attempt_end_age,
          reconf_pc, reconf_local, srv, ccs_pc, nav, nodeOk, env, pubs,
          vel_last, cyc, outcome, hist>>

\* ------------------------------------------------------------ quaternions
\* A quaternion's components are integers in units of 1e-4; nf says that a
\* component is a NaN or an infinity.
Quat(x, y, z, w, nf) == [x |-> x, y |-> y, z |-> z, w |-> w, nf |-> nf]

\* tf2::Quaternion::length2(), in units of 1e-8
Length2(q) == q.x * q.x + q.y * q.y + q.z * q.z + q.w * q.w

\* bool MoveBase::isQuaternionValid(const geometry_msgs::Quaternion &q).
\* 1e-6 is 100 units of 1e-8.  For the normalised quaternion the rotated
\* vertical has z-component 1 - 2 (x^2 + y^2) / |q|^2, so
\* fabs(dot - 1) > 1e-3 is 2000 (x^2 + y^2) > |q|^2, which for integers is
\* x^2 + y^2 > |q|^2 \div 2000.
isQuaternionValid(q) ==
  IF q.nf THEN FALSE
  ELSE IF Length2(q) < 100 THEN FALSE
  ELSE IF q.x * q.x + q.y * q.y > Length2(q) \div 2000 THEN FALSE
  ELSE TRUE

\* The goal orientations that are sent.
Quats == { Quat(0, 0, 0, 10000, FALSE),      \* identity
           Quat(0, 0, 7071, 7071, FALSE),    \* a yaw of 90 degrees
           Quat(0, 0, 0, 5000, FALSE),       \* not normalised, upright
           Quat(100, 0, 0, 10000, FALSE),    \* tilted by about 0.02 rad
           Quat(0, 0, 0, 0, FALSE),          \* zero norm
           Quat(0, 0, 0, 9, FALSE),          \* squared norm 8.1e-7
           Quat(10000, 0, 0, 0, FALSE),      \* upside down
           Quat(300, 0, 0, 10000, FALSE),    \* tilted by about 0.06 rad
           Quat(0, 0, 0, 10000, TRUE) }      \* a NaN component

\* ------------------------------------------------------------ plan buffers
\* A vector of poses: k is what it holds and, for a path, goal says
\* whether it leads to the current goal.
MkBuf(k, g) == [k |-> k, goal |-> g]
\* an empty vector
Empty == MkBuf("empty", "none")
\* a vector the global planner is filling
Writing == MkBuf("writing", "none")
\* a vector that was cleared by another thread while it was being filled
WritingTorn == MkBuf("writing_torn", "none")
\* what such a vector can hold afterwards: neither empty nor the planner's
\* path
Torn == MkBuf("torn", "none")
\* a complete, non-empty path to goal g
Path(g) == MkBuf("plan", g)

\* std::vector::clear() on vector b, by a thread that is not filling it
ClearBy(b) == IF b.k \in {"writing", "writing_torn"} THEN WritingTorn ELSE Empty

\* A goal pose g after a new goal has been accepted.
Outdated(g) == IF g = "current" THEN "stale" ELSE g
OutdatedBuf(b) == [b EXCEPT !.goal = Outdated(b.goal)]

\* ------------------------------------------------------------ velocity
\* vel_pub_.publish(): the message joins the log of what was published
\* during the current call of executeCycle, or by executeCb outside it.
Published(log, who, kind) ==
  IF configuration_mutex_ # "fsm" /\ who # "fsm" THEN log
  ELSE Append(log, <<who, kind>>)

\* planner_cond_.notify_one(): wakes the planner thread if it is blocked in
\* planner_cond_.wait(); lost otherwise.
Notified == IF planner_pc = "waiting" THEN TRUE ELSE notified

\* cyc: what the current iteration of executeCb's loop has done: accepted a
\* preempting goal ("newgoal"), and how its call of executeCycle has ended.
NoCycle == "none"

\* cancelled: the last goal was cancelled and none was accepted since.
\* clearing_zero: no write of CLEARING to state_ is still waiting for its
\* publishZeroVelocity().  fresh: latest_plan_ points to a plan the planner
\* thread has published and executeCycle has not taken.  taken: the cycle
\* in progress has passed a plan to tc_->setPlan and not yet read state_.
NoHist == [cancelled |-> FALSE, clearing_zero |-> TRUE, fresh |-> FALSE,
           taken |-> FALSE]

\* uint32_t(max_planning_retries_): a negative limit wraps to a number near
\* 2^32, written here as one near 2^31 (the largest the checker can hold);
\* planning_retries_ stays below either.
U32(n) == IF n < 0 THEN 2147483647 + (n + 1) ELSE n

Aged(a, cap) == Min(a + 1, cap)

\* planService is not running; no call of NavfnROS::makePlan is made.
NoService == [pc |-> "idle"]

\* ------------------------------------------------------------------ Init
\* The state after MoveBase::MoveBase: the planner thread has started and
\* blocks in planner_cond_.wait() because runPlanner_ is false.
InitWith(c, e) ==
  /\ state_ = "PLANNING"
  /\ recovery_trigger_ = "PLANNING_R"
  /\ recovery_index_ = 0
  /\ runPlanner_ = FALSE
  /\ planner_goal_ = "none"
  /\ planning_retries_ = 0
  /\ new_global_plan_ = FALSE
  /\ planner_plan_ = Empty /\ latest_plan_ = Empty /\ controller_plan_ = Empty
  /\ age_valid_plan = PlanAgeCap /\ age_valid_control = ControlAgeCap
  /\ age_oscillation_reset = OscillationAgeCap(c.oscillation_timeout)
  /\ oscillation_pose_ = 0
  /\ planner_mutex_ = "free" /\ configuration_mutex_ = "free"
  /\ planner_frequency_ = c.planner_frequency
  /\ oscillation_timeout_ = c.oscillation_timeout
  /\ max_planning_retries_ = c.max_planning_retries
  /\ recovery_behavior_enabled_ = c.recovery_behavior_enabled
  /\ fsm_pc = "idle" /\ fsm_ret = "none"
  /\ planner_pc = "waiting" /\ temp_goal = "none" /\ wait_for_wake = FALSE
  /\ notified = FALSE /\ timer = "off" /\ start_age = 0 /\ attempt_end_age = 0
  /\ reconf_pc = "idle" /\ reconf_local = FALSE
  /\ srv = NoService
  /\ ccs_pc = "idle"
  /\ nav = NoService
  /\ nodeOk = TRUE
  /\ env = e
  /\ pubs = <<>> /\ vel_last = "none" /\ cyc = NoCycle /\ outcome = "none"
  /\ hist = NoHist

\* The environment that may do anything.
AnyEnv == [planner |-> "any", controller |-> "any", costmap |-> "any"]

Init == \E c \in Configurations : InitWith(c, AnyEnv)

\* ------------------------------------------------------------------ time
\* One tick of ros::Time::now() passes.
Elapse ==
  /\ fsm_pc \in {"idle", "loop", "clr_after"}
  /\ age_valid_plan' = Aged(age_valid_plan, PlanAgeCap)
  /\ age_valid_control' = Aged(age_valid_control, ControlAgeCap)
  /\ age_oscillation_reset' = Aged(age_oscillation_reset,
                                  OscillationAgeCap(oscillation_timeout_))
  /\ attempt_end_age' = IF planner_pc = "fail_lock"
                        THEN Aged(attempt_end_age, PlanAgeCap)
                        ELSE attempt_end_age
  \* start_age counts from start_time during an attempt, and from the
  \* creation of the pacing timer while the thread sleeps on it.
  /\ start_age' = IF planner_frequency_ > 0
                      /\ \/ planner_pc \notin {"waiting", "exited"}
                         \/ planner_pc = "waiting" /\ wait_for_wake
                   THEN 1 ELSE start_age
  /\ UNCHANGED <<sessv, runPlanner_, planner_goal_, planning_retries_,
                 new_global_plan_, bufv, planner_mutex_,
                 configuration_mutex_, cfgv, fsv, planner_pc, temp_goal,
                 wait_for_wake, timer, rcv, nodeOk, pubs, vel_last, cyc,
                 outcome, hist>>

\* A tick passes and no timer of the planner thread is running.
Tick ==
  /\ timer = "off"
  /\ Elapse
  /\ UNCHANGED notified

\* void MoveBase::wakePlanner(const ros::TimerEvent &): a tick passes and
\* the timer created at the end of a planning attempt fires, as it does
\* every period until it is replaced.
wakePlanner ==
  /\ timer = "armed"
  /\ Elapse
  /\ notified' = Notified

\* ros::NodeHandle::ok() becomes false while the control loop sleeps or no
\* goal is executed: the node is shutting down.
Shutdown ==
  /\ nodeOk
  /\ fsm_pc \in {"idle", "loop"}
  /\ nodeOk' = FALSE
  /\ UNCHANGED <<sessv, runPlanner_, planner_goal_, planning_retries_,
                 new_global_plan_, bufv, agev, planner_mutex_,
                 configuration_mutex_, cfgv, fsv, plv, notified, rcv, pubs,
                 vel_last, cyc, outcome, hist>>

\* ------------------------------------------------------------ planThread
\* What the results of planner_->makePlan() can be.
PlanResults ==
  IF env.planner = "fail" THEN {FALSE}
  ELSE IF env.planner = "ok" THEN {TRUE} ELSE BOOLEAN

\* else if (state_ == PLANNING) (line 1007), read without the mutex, and
\* attempt_end (line 1013): where the thread goes when gotPlan is false.
NoPlan ==
  IF state_ = "PLANNING"
  THEN /\ planner_pc' = "fail_lock"
       /\ attempt_end_age' = age_valid_plan
  ELSE /\ planner_pc' = "pace"
       /\ attempt_end_age' = 0

\* The head of an iteration of planThread once the inner loop is left
\* (lines 967-980): a copy of the goal, lock.unlock(),
\* planner_plan_->clear(), and makePlan is entered; with n.ok() false
\* gotPlan is false at once.
StartAttempt ==
  /\ temp_goal' = planner_goal_
  /\ start_age' = 0
  /\ IF nodeOk
     THEN /\ planner_plan_' = Writing
          /\ planner_pc' = "making"
          /\ UNCHANGED attempt_end_age
     ELSE /\ planner_plan_' = Empty
          /\ NoPlan

\* lock.lock() and the pacing timer (lines 1035-1048), then the head of the
\* next iteration (lines 953-965): leave the loop, block in
\* planner_cond_.wait(), or start an attempt.  rp is runPlanner_ and b what
\* planner_plan_ points to when this is reached.
Pace(rp, b) ==
  LET sleep == planner_frequency_ > 0 /\ start_age = 0
  IN /\ timer' = IF sleep THEN "armed" ELSE timer
     /\ wait_for_wake' = (nodeOk /\ sleep)
     /\ IF nodeOk /\ ~sleep /\ rp
        THEN /\ temp_goal' = planner_goal_
             /\ start_age' = 0
             /\ planner_plan_' = Writing
             /\ planner_pc' = "making"
        ELSE /\ planner_pc' = IF nodeOk THEN "waiting" ELSE "exited"
             /\ temp_goal' = "none"
             /\ start_age' = 0
             /\ planner_plan_' = b

\* planner_cond_.wait(lock) returns (lines 957-965): the thread was notified
\* and has the mutex again; wait_for_wake is cleared; with runPlanner_ it
\* starts an attempt, else it waits again.
PlannerWake ==
  /\ planner_pc = "waiting" /\ notified /\ planner_mutex_ = "free"
  /\ notified' = FALSE
  /\ wait_for_wake' = FALSE
  /\ IF runPlanner_
     THEN StartAttempt
     ELSE UNCHANGED <<planner_pc, temp_goal, start_age, planner_plan_,
                      attempt_end_age>>
  /\ UNCHANGED <<sessv, runPlanner_, planner_goal_, planning_retries_,
                 new_global_plan_, latest_plan_, controller_plan_, agev,
                 planner_mutex_, configuration_mutex_, cfgv, fsv, timer,
                 rcv, nodeOk, pubs, vel_last, cyc, outcome, hist>>

\* bool MoveBase::makePlan(goal, plan) returns (lines 827-863): true with a
\* non-empty path to temp_goal, or false.  A vector that was cleared by
\* another thread while the planner was filling it holds anything.
makePlan ==
  /\ planner_pc = "making"
  /\ \E ok \in PlanResults :
       IF ok
       THEN /\ planner_plan_' \in IF planner_plan_ = WritingTorn
                                   THEN {Torn, Path(temp_goal)}
                                   ELSE {Path(temp_goal)}
            /\ planner_pc' = "got_lock"
            /\ UNCHANGED attempt_end_age
       ELSE /\ planner_plan_' = Empty
            /\ NoPlan
  /\ UNCHANGED <<sessv, runPlanner_, planner_goal_, planning_retries_,
                 new_global_plan_, latest_plan_, controller_plan_, agev,
                 planner_mutex_, configuration_mutex_, cfgv, fsv, temp_goal,
                 wait_for_wake, notified, timer, start_age,
                 rcv, nodeOk, pubs, vel_last, cyc, outcome, hist>>

\* if (gotPlan) { ... } (lines 982-1004) under planner_mutex_: the pointer
\* swap, last_valid_plan_, planning_retries_, new_global_plan_, state_ and
\* runPlanner_; then the pacing and the head of the next iteration.
PlannerGotPlan ==
  /\ planner_pc = "got_lock" /\ planner_mutex_ = "free"
  /\ latest_plan_' = planner_plan_
  /\ hist' = [hist EXCEPT !.fresh = TRUE]
  /\ age_valid_plan' = 0
  /\ planning_retries_' = 0
  /\ new_global_plan_' = TRUE
  /\ state_' = IF runPlanner_ THEN "CONTROLLING" ELSE state_
  /\ runPlanner_' = IF planner_frequency_ <= 0 THEN FALSE ELSE runPlanner_
  /\ Pace(runPlanner_', latest_plan_)
  /\ UNCHANGED <<recovery_trigger_, recovery_index_, planner_goal_,
                 controller_plan_, age_valid_control, age_oscillation_reset,
                 planner_mutex_, configuration_mutex_, cfgv, fsv,
                 notified, attempt_end_age, rcv, nodeOk, pubs, vel_last, cyc,
                 outcome>>

\* The test of lines 1021-1022 without its first conjunct: the limits
\* alone, whether or not runPlanner_ is still set.
GiveUpPlanningStopped(retries) ==
  attempt_end_age > planner_patience_
    \/ retries > U32(max_planning_retries_)

\* The planner thread gives up the goal's current planning round (lines
\* 1021-1022): patience has run out or the retries are used up.
GiveUpPlanning(retries) ==
  runPlanner_ /\ (attempt_end_age > planner_patience_
                  \/ retries > U32(max_planning_retries_))

\* lock.lock(); planning_retries_++ and the test (lines 1018-1026).  When the
\* thread gives up it sets state_ and runPlanner_ and still holds the mutex.
PlannerFailLock ==
  /\ planner_pc = "fail_lock" /\ planner_mutex_ = "free"
  /\ planning_retries_' = Min(planning_retries_ + 1, RetriesCap)
  /\ attempt_end_age' = 0
  /\ IF GiveUpPlanning(planning_retries_')
     THEN /\ state_' = "CLEARING"
          /\ runPlanner_' = FALSE
          /\ planner_mutex_' = "planner"
          /\ planner_pc' = "fail_pub"
          /\ hist' = [hist EXCEPT !.clearing_zero = FALSE]
          /\ UNCHANGED <<temp_goal, wait_for_wake, timer, start_age,
                         planner_plan_>>
     ELSE /\ Pace(runPlanner_, planner_plan_)
          /\ UNCHANGED <<state_, runPlanner_, planner_mutex_, hist>>
  /\ UNCHANGED <<recovery_trigger_, recovery_index_, planner_goal_,
                 new_global_plan_, latest_plan_, controller_plan_, agev,
                 configuration_mutex_, cfgv, fsv, notified, rcv, nodeOk, pubs,
                 vel_last, cyc, outcome>>

\* publishZeroVelocity(); recovery_trigger_ = PLANNING_R; lock.unlock()
\* (lines 1027-1031); then the pacing and the head of the next iteration.
PlannerFailPublish ==
  /\ planner_pc = "fail_pub"
  /\ pubs' = Published(pubs, "planner", "zero")
  /\ vel_last' = "zero"
  /\ recovery_trigger_' = "PLANNING_R"
  /\ planner_mutex_' = "free"
  /\ hist' = [hist EXCEPT !.clearing_zero = TRUE]
  /\ Pace(runPlanner_, planner_plan_)
  /\ UNCHANGED <<state_, recovery_index_, runPlanner_, planner_goal_,
                 planning_retries_, new_global_plan_, latest_plan_,
                 controller_plan_, agev, configuration_mutex_, cfgv, fsv,
                 notified, attempt_end_age, rcv, nodeOk, cyc, outcome>>

\* lock.lock() and the pacing (lines 1035-1048) after a failed attempt that
\* found state_ other than PLANNING.
PlannerPace ==
  /\ planner_pc = "pace" /\ planner_mutex_ = "free"
  /\ Pace(runPlanner_, planner_plan_)
  /\ UNCHANGED <<sessv, runPlanner_, planner_goal_, planning_retries_,
                 new_global_plan_, latest_plan_, controller_plan_, agev,
                 planner_mutex_, configuration_mutex_, cfgv, fsv, notified,
                 attempt_end_age, rcv, nodeOk, pubs, vel_last, cyc, outcome,
                 hist>>

\* void MoveBase::planThread()
planThread ==
  \/ PlannerWake
  \/ makePlan
  \/ PlannerGotPlan
  \/ PlannerFailLock
  \/ PlannerFailPublish
  \/ PlannerPace

\* ------------------------------------------------------------- executeCb
\* A resetState() that leaves the recovery chain where it was:
\* ResetStateRest without recovery_index_ = 0.
ResetStateRestKeepIndex(who) ==
  /\ state_' = "PLANNING"
  /\ UNCHANGED recovery_index_
  /\ recovery_trigger_' = "PLANNING_R"
  /\ pubs' = Published(pubs, who, "zero")
  /\ vel_last' = "zero"

\* resetState() after its first statement (lines 1678-1681): state_,
\* recovery_index_, recovery_trigger_ and publishZeroVelocity().
ResetStateRest(who) ==
  /\ state_' = "PLANNING"
  /\ recovery_index_' = 0
  /\ recovery_trigger_' = "PLANNING_R"
  /\ pubs' = Published(pubs, who, "zero")
  /\ vel_last' = "zero"

\* A goal is accepted: the goals and plans known so far are earlier ones.
NewGoal ==
  /\ planner_plan_' = OutdatedBuf(planner_plan_)
  /\ latest_plan_' = OutdatedBuf(latest_plan_)
  /\ controller_plan_' = OutdatedBuf(controller_plan_)
  /\ planner_goal_' = Outdated(planner_goal_)
  /\ temp_goal' = Outdated(temp_goal)

\* A rejection that also stops the robot: executeCbReject with a zero
\* velocity published before the return.
executeCbRejectStopping(q) ==
  /\ fsm_pc = "idle" /\ nodeOk
  /\ ~isQuaternionValid(q)
  /\ fsm_pc' = "returned"
  /\ outcome' = "REJECTED"
  /\ pubs' = Append(<<>>, <<"fsm", "zero">>)
  /\ vel_last' = "zero"
  /\ UNCHANGED <<sessv, runPlanner_, planner_goal_, planning_retries_,
                 new_global_plan_, bufv, agev, planner_mutex_,
                 configuration_mutex_, cfgv, fsm_ret, plv, notified, rcv,
                 nodeOk, cyc, hist>>

\* executeCb with a goal whose quaternion is invalid (lines 1057-1061):
\* as_->setAborted and return.
executeCbReject(q) ==
  /\ fsm_pc = "idle" /\ nodeOk
  /\ ~isQuaternionValid(q)
  /\ fsm_pc' = "returned"
  /\ outcome' = "REJECTED"
  /\ UNCHANGED <<sessv, runPlanner_, planner_goal_, planning_retries_,
                 new_global_plan_, bufv, agev, planner_mutex_,
                 configuration_mutex_, cfgv, fsm_ret, plv, notified, rcv,
                 nodeOk, pubs, vel_last, cyc, hist>>

\* executeCb with a valid goal, up to publishZeroVelocity() (lines
\* 1057-1065).
executeCbAccept(q) ==
  /\ fsm_pc = "idle" /\ nodeOk
  /\ isQuaternionValid(q)
  /\ NewGoal
  /\ pubs' = Append(<<>>, <<"fsm", "zero">>)
  /\ vel_last' = "zero"
  /\ fsm_pc' = "cb_lock"
  /\ outcome' = "active"
  /\ hist' = [hist EXCEPT !.cancelled = FALSE]
  /\ UNCHANGED <<sessv, runPlanner_, planning_retries_, new_global_plan_,
                 agev, planner_mutex_, configuration_mutex_, cfgv, fsm_ret,
                 planner_pc, wait_for_wake, timer, start_age, attempt_end_age,
                 notified, rcv, nodeOk, cyc>>

\* lock; planner_goal_ = goal; runPlanner_ = true;
\* planner_cond_.notify_one(); unlock (lines 1069-1074, 1131-1135,
\* 1179-1183).
GoalLock(from, to) ==
  /\ fsm_pc = from /\ planner_mutex_ = "free"
  /\ planner_goal_' = "current"
  /\ runPlanner_' = TRUE
  /\ notified' = Notified
  /\ fsm_pc' = to
  /\ UNCHANGED <<sessv, planning_retries_, new_global_plan_, bufv, agev,
                 planner_mutex_, configuration_mutex_, cfgv, fsm_ret, plv,
                 rcv, nodeOk, pubs, vel_last, cyc, outcome, hist>>

\* last_valid_control_, last_valid_plan_, last_oscillation_reset_ = now;
\* planning_retries_ = 0 (lines 1091-1094, 1144-1147, 1191-1194), written
\* without the mutex.
ResetAnchors(from, to) ==
  /\ fsm_pc = from
  /\ age_valid_control' = 0
  /\ age_valid_plan' = 0
  /\ age_oscillation_reset' = 0
  /\ planning_retries_' = 0
  /\ fsm_pc' = to
  /\ UNCHANGED <<sessv, runPlanner_, planner_goal_, new_global_plan_, bufv,
                 planner_mutex_, configuration_mutex_, cfgv, fsm_ret, plv,
                 notified, rcv, nodeOk, pubs, vel_last, cyc, outcome, hist>>

\* while (n.ok()) is false (line 1099).
LoopExit ==
  /\ fsm_pc = "loop" /\ ~nodeOk
  /\ fsm_pc' = "exit_lock"
  /\ UNCHANGED <<sessv, runPlanner_, planner_goal_, planning_retries_,
                 new_global_plan_, bufv, agev, planner_mutex_,
                 configuration_mutex_, cfgv, fsm_ret, plv, notified, rcv,
                 nodeOk, pubs, vel_last, cyc, outcome, hist>>

\* After the loop (lines 1230-1238): runPlanner_ = true and notify under
\* the mutex, as_->setAborted, return.
ExitLock ==
  /\ fsm_pc = "exit_lock" /\ planner_mutex_ = "free"
  /\ runPlanner_' = TRUE
  /\ notified' = Notified
  /\ outcome' = "ABORTED_SHUTDOWN"
  /\ fsm_pc' = "returned"
  /\ UNCHANGED <<sessv, planner_goal_, planning_retries_, new_global_plan_,
                 bufv, agev, planner_mutex_, configuration_mutex_, cfgv,
                 fsm_ret, plv, rcv, nodeOk, pubs, vel_last, cyc, hist>>

\* An iteration without a preempt request and without a change of the
\* global frame (lines 1109, 1168): on to executeCycle.
LoopNoPreempt ==
  /\ fsm_pc = "loop" /\ nodeOk
  /\ fsm_pc' = "cycle"
  /\ UNCHANGED <<sessv, runPlanner_, planner_goal_, planning_retries_,
                 new_global_plan_, bufv, agev, planner_mutex_,
                 configuration_mutex_, cfgv, fsm_ret, plv, notified, rcv,
                 nodeOk, pubs, vel_last, cyc, outcome, hist>>

\* A preempting goal with a valid quaternion (lines 1111-1127), or a change
\* of the global frame (lines 1168-1176): goal is replaced, recovery_index_
\* and state_ are written without the mutex.
LoopNewGoal(q) ==
  /\ fsm_pc = "loop" /\ nodeOk
  /\ isQuaternionValid(q)
  /\ NewGoal
  /\ recovery_index_' = 0
  /\ state_' = "PLANNING"
  /\ fsm_pc' = "pre_lock"
  /\ cyc' = "newgoal"
  /\ UNCHANGED <<recovery_trigger_, runPlanner_, planning_retries_,
                 new_global_plan_, agev, planner_mutex_,
                 configuration_mutex_, cfgv, fsm_ret, planner_pc,
                 wait_for_wake, timer, start_age, attempt_end_age, notified,
                 rcv, nodeOk, pubs, vel_last, outcome, hist>>

\* A preempting goal with an invalid quaternion (lines 1117-1121):
\* as_->setAborted and return.
LoopBadGoal(q) ==
  /\ fsm_pc = "loop" /\ nodeOk
  /\ ~isQuaternionValid(q)
  /\ outcome' = "ABORTED_BAD_PREEMPT"
  /\ fsm_pc' = "returned"
  /\ UNCHANGED <<sessv, runPlanner_, planner_goal_, planning_retries_,
                 new_global_plan_, bufv, agev, planner_mutex_,
                 configuration_mutex_, cfgv, fsm_ret, plv, notified, rcv,
                 nodeOk, pubs, vel_last, cyc, hist>>

\* A preempt request without a new goal (lines 1149-1153): a cancel;
\* resetState() is entered.
LoopCancel ==
  /\ fsm_pc = "loop" /\ nodeOk
  /\ fsm_pc' = "reset_lock"
  /\ fsm_ret' = "preempt"
  /\ UNCHANGED <<sessv, runPlanner_, planner_goal_, planning_retries_,
                 new_global_plan_, bufv, agev, planner_mutex_,
                 configuration_mutex_, cfgv, plv, notified, rcv, nodeOk, pubs,
                 vel_last, cyc, outcome, hist>>

\* A resetState() that leaves the planner thread enabled: ResetLock without
\* the write of runPlanner_.
ResetLockKeepPlanner ==
  /\ fsm_pc = "reset_lock" /\ planner_mutex_ = "free"
  /\ fsm_pc' = "reset_rest"
  /\ UNCHANGED <<sessv, runPlanner_, planner_goal_, planning_retries_,
                 new_global_plan_, bufv, agev, planner_mutex_,
                 configuration_mutex_, cfgv, fsm_ret, plv, notified, rcv,
                 nodeOk, pubs, vel_last, cyc, outcome, hist>>

\* resetState(), first statement (lines 1673-1675): runPlanner_ = false
\* under the mutex.
ResetLock ==
  /\ fsm_pc = "reset_lock" /\ planner_mutex_ = "free"
  /\ runPlanner_' = FALSE
  /\ fsm_pc' = "reset_rest"
  /\ UNCHANGED <<sessv, planner_goal_, planning_retries_, new_global_plan_,
                 bufv, agev, planner_mutex_, configuration_mutex_, cfgv,
                 fsm_ret, plv, notified, rcv, nodeOk, pubs, vel_last, cyc,
                 outcome, hist>>

\* The rest of resetState() and what its caller does next: setPreempted and
\* return (lines 1158-1161), return after an abort (line 1496), or on to
\* the caller's own runPlanner_ = false (lines 1323, 1366).
ResetRest ==
  /\ fsm_pc = "reset_rest"
  /\ ResetStateRest("fsm")
  /\ IF fsm_ret = "preempt"
     THEN /\ outcome' = "PREEMPTED"
          /\ fsm_pc' = "returned"
          /\ hist' = [hist EXCEPT !.cancelled = TRUE]
          /\ UNCHANGED configuration_mutex_
     ELSE IF fsm_ret = "abort"
     THEN /\ fsm_pc' = "returned"
          /\ configuration_mutex_' = "free"
          /\ UNCHANGED <<outcome, hist>>
     ELSE /\ fsm_pc' = "end_lock"
          /\ UNCHANGED <<outcome, hist, configuration_mutex_>>
  /\ UNCHANGED <<runPlanner_, planner_goal_, planning_retries_,
                 new_global_plan_, bufv, agev, planner_mutex_, cfgv, fsm_ret,
                 plv, notified, rcv, nodeOk, cyc>>

\* runPlanner_ = false under the mutex, setSucceeded or setAborted, return
\* true (lines 1323-1328, 1366-1371).
EndLock ==
  /\ fsm_pc = "end_lock" /\ planner_mutex_ = "free"
  /\ runPlanner_' = FALSE
  /\ outcome' = IF fsm_ret = "succ" THEN "SUCCEEDED" ELSE "ABORTED_SETPLAN"
  /\ configuration_mutex_' = "free"
  /\ fsm_pc' = "returned"
  /\ UNCHANGED <<sessv, planner_goal_, planning_retries_, new_global_plan_,
                 bufv, agev, planner_mutex_, cfgv, fsm_ret, plv, notified,
                 rcv, nodeOk, pubs, vel_last, cyc, hist>>

\* executeCb has returned; the action server waits for the next goal.
Return ==
  /\ fsm_pc = "returned"
  /\ fsm_pc' = "idle"
  /\ fsm_ret' = "none"
  /\ outcome' = "none"
  /\ pubs' = <<>>
  /\ cyc' = NoCycle
  /\ UNCHANGED <<sessv, runPlanner_, planner_goal_, planning_retries_,
                 new_global_plan_, bufv, agev, planner_mutex_,
                 configuration_mutex_, cfgv, plv, notified, rcv, nodeOk,
                 vel_last, hist>>

\* ---------------------------------------------------------- executeCycle
\* What controller_costmap_ros_->isCurrent() can return.
CostmapResults == IF env.costmap = "current" THEN {TRUE} ELSE BOOLEAN

\* What tc_->computeVelocityCommands() can return.
VelocityResults ==
  IF env.controller = "fail" THEN {FALSE}
  ELSE IF env.controller = "ok" THEN {TRUE} ELSE BOOLEAN

\* What tc_->isGoalReached() and tc_->setPlan() can return.
GoalResults == IF env.controller = "any" THEN BOOLEAN ELSE {FALSE}
SetPlanResults == IF env.controller = "any" THEN BOOLEAN ELSE {TRUE}

\* oscillation_distance_ (line 342), in the unit of the positions.
oscillation_distance_ == 1

\* The positions getRobotPose() may report (line 1258), on a line.
Positions == {0, 1}

\* double MoveBase::distance(p1, p2) (lines 1244-1247): hypot of the
\* differences, on a line the absolute difference.
distance(p1, p2) == IF p1 >= p2 THEN p1 - p2 ELSE p2 - p1

\* A robot that counts as moved only beyond oscillation_distance_.
MovedBeyond(position) ==
  distance(position, oscillation_pose_) > oscillation_distance_

\* The robot has moved far enough from oscillation_pose_ (line 1274).
Moved(position) == distance(position, oscillation_pose_) >= oscillation_distance_

\* A costmap check without its return: CycleBegin going on to take the plan
\* after the zero velocity.
CycleBeginNoReturn(position, current) ==
  /\ fsm_pc = "cycle" /\ configuration_mutex_ = "free"
  /\ configuration_mutex_' = "fsm"
  /\ IF Moved(position)
     THEN /\ age_oscillation_reset' = 0
          /\ oscillation_pose_' = position
          /\ recovery_index_' = IF recovery_trigger_ = "OSCILLATION_R" THEN 0
                                ELSE recovery_index_
     ELSE UNCHANGED <<age_oscillation_reset, oscillation_pose_,
                      recovery_index_>>
  /\ IF current
     THEN /\ pubs' = <<>>
          /\ UNCHANGED <<vel_last, cyc>>
     ELSE /\ pubs' = Append(<<>>, <<"fsm", "zero">>)
          /\ vel_last' = "zero"
          /\ cyc' = "stale"
  /\ fsm_pc' = "ingest"
  /\ UNCHANGED <<state_, recovery_trigger_, runPlanner_, planner_goal_,
                 planning_retries_, new_global_plan_, bufv, age_valid_plan,
                 age_valid_control, planner_mutex_, planner_frequency_,
                 oscillation_timeout_, max_planning_retries_,
                 recovery_behavior_enabled_, env, srv, ccs_pc, nav,
                 fsm_ret, plv, notified, rcv, nodeOk, outcome, hist>>

\* executeCycle up to the costmap check (lines 1254-1293): the scoped lock
\* on configuration_mutex_, the oscillation reset when the robot has moved
\* oscillation_distance_, and, with a costmap that is not current,
\* publishZeroVelocity() and return false.
CycleBegin(position, current) ==
  /\ fsm_pc = "cycle" /\ configuration_mutex_ = "free"
  /\ configuration_mutex_' = "fsm"
  /\ IF Moved(position)
     THEN /\ age_oscillation_reset' = 0
          /\ oscillation_pose_' = position
          /\ recovery_index_' = IF recovery_trigger_ = "OSCILLATION_R" THEN 0
                                ELSE recovery_index_
     ELSE UNCHANGED <<age_oscillation_reset, oscillation_pose_,
                      recovery_index_>>
  /\ IF current
     THEN /\ pubs' = <<>>
          /\ fsm_pc' = "ingest"
          /\ UNCHANGED <<vel_last, cyc>>
     ELSE /\ pubs' = Append(<<>>, <<"fsm", "zero">>)
          /\ vel_last' = "zero"
          /\ cyc' = "stale"
          /\ fsm_pc' = "cycle_end"
  /\ UNCHANGED <<state_, recovery_trigger_, runPlanner_, planner_goal_,
                 planning_retries_, new_global_plan_, bufv, age_valid_plan,
                 age_valid_control, planner_mutex_, planner_frequency_,
                 oscillation_timeout_, max_planning_retries_,
                 recovery_behavior_enabled_, env, srv, ccs_pc, nav,
                 fsm_ret, plv, notified, rcv, nodeOk, outcome, hist>>

\* if (new_global_plan_) new_global_plan_ = false (lines 1297-1300), read
\* and written without the mutex.
Ingest ==
  /\ fsm_pc = "ingest"
  /\ new_global_plan_' = FALSE
  /\ fsm_pc' = IF new_global_plan_ THEN "swap" ELSE "dispatch"
  /\ UNCHANGED <<sessv, runPlanner_, planner_goal_, planning_retries_, bufv,
                 agev, planner_mutex_, configuration_mutex_, cfgv, fsm_ret,
                 plv, notified, rcv, nodeOk, pubs, vel_last, cyc, outcome,
                 hist>>

\* What executeCycle is handed when it takes vector b from latest_plan_.
Taken(b) ==
  IF b.k # "plan" THEN b.k
  ELSE IF hist.fresh THEN "latest" ELSE "old"

\* The pointer swap under the mutex and tc_->setPlan(*controller_plan_)
\* (lines 1306-1336).  When setPlan fails, resetState() is entered and its
\* first statement done.
Swap(ok) ==
  /\ fsm_pc = "swap" /\ planner_mutex_ = "free"
  /\ controller_plan_' = latest_plan_
  /\ latest_plan_' = controller_plan_
  /\ hist' = [hist EXCEPT !.fresh = FALSE, !.taken = ok]
  /\ IF ok
     THEN /\ recovery_index_' = IF recovery_trigger_ = "PLANNING_R" THEN 0
                                ELSE recovery_index_
          /\ fsm_pc' = "dispatch"
          /\ UNCHANGED <<runPlanner_, fsm_ret>>
     ELSE /\ runPlanner_' = FALSE
          /\ fsm_pc' = "reset_rest"
          /\ fsm_ret' = "setplan"
          /\ UNCHANGED recovery_index_
  /\ UNCHANGED <<state_, recovery_trigger_, planner_goal_, planning_retries_,
                 new_global_plan_, planner_plan_, agev, planner_mutex_,
                 configuration_mutex_, cfgv, plv, notified, rcv, nodeOk, pubs,
                 vel_last, cyc, outcome>>

\* case PLANNING (lines 1345-1352): the state is read; the mutex is next.
DispatchPlanning ==
  /\ fsm_pc = "dispatch" /\ state_ = "PLANNING"
  /\ cyc' = "wake"
  /\ fsm_pc' = "wake_lock"
  /\ UNCHANGED <<sessv, runPlanner_, planner_goal_, planning_retries_,
                 new_global_plan_, bufv, agev, planner_mutex_,
                 configuration_mutex_, cfgv, fsm_ret, plv, notified, rcv,
                 nodeOk, pubs, vel_last, outcome>>
  /\ hist' = [hist EXCEPT !.taken = FALSE]

\* runPlanner_ = true; planner_cond_.notify_one() under the mutex (lines
\* 1347-1349, 1425-1428); executeCycle returns false.
WakeLock ==
  /\ fsm_pc = "wake_lock" /\ planner_mutex_ = "free"
  /\ runPlanner_' = TRUE
  /\ notified' = Notified
  /\ fsm_pc' = "cycle_end"
  /\ UNCHANGED <<sessv, planner_goal_, planning_retries_, new_global_plan_,
                 bufv, agev, planner_mutex_, configuration_mutex_, cfgv,
                 fsm_ret, plv, rcv, nodeOk, pubs, vel_last, cyc, outcome,
                 hist>>

\* The oscillation condition (lines 1377-1378).
Oscillating ==
  oscillation_timeout_ > 0 /\ age_oscillation_reset > oscillation_timeout_

\* A controller time-out that leaves recovery_trigger_ as it was:
\* DispatchControlling without recovery_trigger_ = CONTROLLING_R.
DispatchControllingKeepTrigger(reached, valid) ==
  /\ fsm_pc = "dispatch" /\ state_ = "CONTROLLING"
  /\ IF reached
     THEN /\ cyc' = "succ"
          /\ fsm_pc' = "reset_lock"
          /\ fsm_ret' = "succ"
          /\ UNCHANGED <<sessv, planning_retries_, agev, pubs, vel_last>>
     ELSE LET osc == Oscillating
              log == IF osc THEN Published(pubs, "fsm", "zero") ELSE pubs
              trigger == IF osc THEN "OSCILLATION_R" ELSE recovery_trigger_
              st == IF osc THEN "CLEARING" ELSE state_
          IN /\ ccs_pc # "controller"
             /\ UNCHANGED <<fsm_ret, age_oscillation_reset>>
             /\ IF valid
                THEN /\ age_valid_control' = 0
                     /\ pubs' = Append(log, <<"fsm", "cmd">>)
                     /\ vel_last' = "cmd"
                     /\ recovery_index_' = IF trigger = "CONTROLLING_R" THEN 0
                                           ELSE recovery_index_
                     /\ recovery_trigger_' = trigger
                     /\ state_' = st
                     /\ cyc' = "valid"
                     /\ fsm_pc' = "cycle_end"
                     /\ UNCHANGED <<age_valid_plan, planning_retries_>>
                ELSE IF age_valid_control > controller_patience_
                THEN /\ pubs' = Append(log, <<"fsm", "zero">>)
                     /\ vel_last' = "zero"
                     /\ state_' = "CLEARING"
                     /\ recovery_trigger_' = trigger
                     /\ cyc' = "timeout"
                     /\ fsm_pc' = "cycle_end"
                     /\ UNCHANGED <<recovery_index_, age_valid_plan,
                                    age_valid_control, planning_retries_>>
                ELSE /\ age_valid_plan' = 0
                     /\ planning_retries_' = 0
                     /\ state_' = "PLANNING"
                     /\ pubs' = Append(log, <<"fsm", "zero">>)
                     /\ vel_last' = "zero"
                     /\ recovery_trigger_' = trigger
                     /\ cyc' = "replan"
                     /\ fsm_pc' = "wake_lock"
                     /\ UNCHANGED <<recovery_index_, age_valid_control>>
  /\ UNCHANGED <<runPlanner_, planner_goal_, new_global_plan_, bufv,
                 planner_mutex_, configuration_mutex_, cfgv, plv, notified,
                 rcv, nodeOk, outcome>>
  /\ hist' = [hist EXCEPT !.taken = FALSE]

\* case CONTROLLING (lines 1355-1433).  With tc_->isGoalReached(),
\* resetState() is entered.  Otherwise the oscillation block (lines
\* 1377-1383) runs and control goes on into the block that asks the local
\* planner for a velocity (lines 1385-1431).
DispatchControlling(reached, valid) ==
  /\ fsm_pc = "dispatch" /\ state_ = "CONTROLLING"
  /\ IF reached
     THEN /\ cyc' = "succ"
          /\ fsm_pc' = "reset_lock"
          /\ fsm_ret' = "succ"
          /\ UNCHANGED <<sessv, planning_retries_, agev, pubs, vel_last>>
     ELSE LET osc == Oscillating
              log == IF osc THEN Published(pubs, "fsm", "zero") ELSE pubs
              trigger == IF osc THEN "OSCILLATION_R" ELSE recovery_trigger_
              st == IF osc THEN "CLEARING" ELSE state_
          IN /\ ccs_pc # "controller"
             /\ UNCHANGED <<fsm_ret, age_oscillation_reset>>
             /\ IF valid
                THEN /\ age_valid_control' = 0
                     /\ pubs' = Append(log, <<"fsm", "cmd">>)
                     /\ vel_last' = "cmd"
                     /\ recovery_index_' = IF trigger = "CONTROLLING_R" THEN 0
                                           ELSE recovery_index_
                     /\ recovery_trigger_' = trigger
                     /\ state_' = st
                     /\ cyc' = "valid"
                     /\ fsm_pc' = "cycle_end"
                     /\ UNCHANGED <<age_valid_plan, planning_retries_>>
                ELSE IF age_valid_control > controller_patience_
                THEN /\ pubs' = Append(log, <<"fsm", "zero">>)
                     /\ vel_last' = "zero"
                     /\ state_' = "CLEARING"
                     /\ recovery_trigger_' = "CONTROLLING_R"
                     /\ cyc' = "timeout"
                     /\ fsm_pc' = "cycle_end"
                     /\ UNCHANGED <<recovery_index_, age_valid_plan,
                                    age_valid_control, planning_retries_>>
                ELSE /\ age_valid_plan' = 0
                     /\ planning_retries_' = 0
                     /\ state_' = "PLANNING"
                     /\ pubs' = Append(log, <<"fsm", "zero">>)
                     /\ vel_last' = "zero"
                     /\ recovery_trigger_' = trigger
                     /\ cyc' = "replan"
                     /\ fsm_pc' = "wake_lock"
                     /\ UNCHANGED <<recovery_index_, age_valid_control>>
  /\ UNCHANGED <<runPlanner_, planner_goal_, new_global_plan_, bufv,
                 planner_mutex_, configuration_mutex_, cfgv, plv, notified,
                 rcv, nodeOk, outcome>>
  /\ hist' = [hist EXCEPT !.taken = FALSE]

\* case CLEARING (lines 1437-1498): the state is read and the branch taken;
\* with a behaviour left, recovery_behaviors_[recovery_index_]->runBehavior()
\* is entered (line 1453).
DispatchClearing ==
  /\ fsm_pc = "dispatch" /\ state_ = "CLEARING"
  /\ IF recovery_behavior_enabled_ /\ recovery_index_ < NumRecoveries
     THEN /\ cyc' = "recovery"
          /\ fsm_pc' = "clr_after"
     ELSE /\ cyc' = "abort"
          /\ fsm_pc' = "abort_lock"
  /\ UNCHANGED <<sessv, runPlanner_, planner_goal_, planning_retries_,
                 new_global_plan_, bufv, agev, planner_mutex_,
                 configuration_mutex_, cfgv, fsm_ret, plv, notified, rcv,
                 nodeOk, pubs, vel_last, outcome>>
  /\ hist' = [hist EXCEPT !.taken = FALSE]

\* ClearingAfter without recovery_index_++: the next behaviour run is the
\* same one again.
ClearingAfterSameIndex ==
  /\ fsm_pc = "clr_after"
  /\ age_oscillation_reset' = 0
  /\ age_valid_plan' = 0
  /\ planning_retries_' = 0
  /\ state_' = "PLANNING"
  /\ fsm_pc' = "cycle_end"
  /\ UNCHANGED <<recovery_trigger_, recovery_index_, runPlanner_,
                 planner_goal_, new_global_plan_, bufv, age_valid_control,
                 planner_mutex_, configuration_mutex_, cfgv, fsm_ret, plv,
                 notified, rcv, nodeOk, pubs, vel_last, cyc, outcome, hist>>

\* runBehavior() has returned (lines 1456-1465).
ClearingAfter ==
  /\ fsm_pc = "clr_after"
  /\ age_oscillation_reset' = 0
  /\ age_valid_plan' = 0
  /\ planning_retries_' = 0
  /\ state_' = "PLANNING"
  /\ recovery_index_' = recovery_index_ + 1
  /\ fsm_pc' = "cycle_end"
  /\ UNCHANGED <<recovery_trigger_, runPlanner_, planner_goal_,
                 new_global_plan_, bufv, age_valid_control, planner_mutex_,
                 configuration_mutex_, cfgv, fsm_ret, plv, notified, rcv,
                 nodeOk, pubs, vel_last, cyc, outcome, hist>>

\* An abort that always blames the global planner.
AbortReasonPlanning(trigger) == "ABORTED_PLAN"

\* The text of as_->setAborted once the recovery behaviours are used up
\* (lines 1479-1493).
AbortReason(trigger) ==
  IF trigger = "CONTROLLING_R" THEN "ABORTED_CONTROL"
  ELSE IF trigger = "PLANNING_R" THEN "ABORTED_PLAN"
  ELSE "ABORTED_OSCILLATION"

\* No behaviour left (lines 1472-1494): runPlanner_ = false under the
\* mutex, setAborted with the reason, and resetState() is entered.
ClearingAbort ==
  /\ fsm_pc = "abort_lock" /\ planner_mutex_ = "free"
  /\ runPlanner_' = FALSE
  /\ outcome' = AbortReason(recovery_trigger_)
  /\ fsm_pc' = "reset_rest"
  /\ fsm_ret' = "abort"
  /\ UNCHANGED <<sessv, planner_goal_, planning_retries_, new_global_plan_,
                 bufv, agev, planner_mutex_, configuration_mutex_, cfgv, plv,
                 notified, rcv, nodeOk, pubs, vel_last, cyc, hist>>

\* executeCycle returns false (line 1511): configuration_mutex_ is released
\* and executeCb sleeps to the end of the control period (line 1220).
CycleEnd ==
  /\ fsm_pc = "cycle_end"
  /\ configuration_mutex_' = "free"
  /\ pubs' = <<>>
  /\ cyc' = NoCycle
  /\ fsm_pc' = "loop"
  /\ UNCHANGED <<sessv, runPlanner_, planner_goal_, planning_retries_,
                 new_global_plan_, bufv, agev, planner_mutex_, cfgv, fsm_ret,
                 plv, notified, rcv, nodeOk, vel_last, outcome, hist>>

\* bool MoveBase::executeCycle(goal, global_plan)
executeCycle ==
  \/ \E position \in Positions, current \in CostmapResults :
       CycleBegin(position, current)
  \/ Ingest
  \/ \E ok \in SetPlanResults : Swap(ok)
  \/ DispatchPlanning
  \/ WakeLock
  \/ \E reached \in GoalResults, valid \in VelocityResults :
       DispatchControlling(reached, valid)
  \/ DispatchClearing
  \/ ClearingAfter
  \/ ClearingAbort
  \/ CycleEnd

\* executeCb without its preemption check and without the end of the node:
\* lines 1054-1108 and 1164-1226.
executeCbRun ==
  \/ \E q \in Quats : executeCbReject(q)
  \/ \E q \in Quats : executeCbAccept(q)
  \/ GoalLock("cb_lock", "cb_anchors")
  \/ ResetAnchors("cb_anchors", "loop")
  \/ LoopNoPreempt
  \/ ResetLock
  \/ ResetRest
  \/ EndLock
  \/ Return

\* The preemption check and the change of the global frame (lines
\* 1109-1195).
executeCbPreempt ==
  \/ \E q \in Quats : LoopNewGoal(q)
  \/ \E q \in Quats : LoopBadGoal(q)
  \/ LoopCancel
  \/ GoalLock("pre_lock", "pre_anchors")
  \/ ResetAnchors("pre_anchors", "cycle")

\* The end of the loop when the node goes down (lines 1099, 1227-1238).
executeCbExit == LoopExit \/ ExitLock

\* void MoveBase::executeCb(move_base_goal)
executeCb == executeCbRun \/ executeCbPreempt \/ executeCbExit

\* --------------------------------------------------------- reconfigureCB
\* std::vector::clear() on the three plan vectors (lines 545-547, 571-573).
ClearPlans ==
  /\ planner_plan_' = ClearBy(planner_plan_)
  /\ latest_plan_' = Empty
  /\ controller_plan_' = Empty

\* reconfigureCB is called with a configuration that names another global
\* planner, another local planner, or both (lines 490-531): the scoped lock
\* on configuration_mutex_.
ReconfBegin(kind) ==
  /\ reconf_pc = "idle" /\ configuration_mutex_ = "free" /\ nodeOk
  /\ configuration_mutex_' = "reconf"
  /\ reconf_local' = (kind \in {"local", "both"})
  /\ reconf_pc' = IF kind \in {"global", "both"} THEN "g_lock" ELSE "l_clear"
  /\ UNCHANGED <<sessv, runPlanner_, planner_goal_, planning_retries_,
                 new_global_plan_, bufv, agev, planner_mutex_, cfgv, fsv, plv,
                 notified, nodeOk, pubs, vel_last, cyc, outcome, hist>>

\* The global planner is replaced (lines 542-548): planner_mutex_ is taken,
\* the three vectors are cleared and resetState() does its first statement.
ReconfGlobalLock ==
  /\ reconf_pc = "g_lock" /\ planner_mutex_ = "free"
  /\ planner_mutex_' = "reconf"
  /\ ClearPlans
  /\ hist' = [hist EXCEPT !.fresh = FALSE]
  /\ runPlanner_' = FALSE
  /\ reconf_pc' = "g_reset"
  /\ UNCHANGED <<sessv, planner_goal_, planning_retries_, new_global_plan_,
                 agev, configuration_mutex_, cfgv, fsv, planner_pc, temp_goal,
                 wait_for_wake, timer, start_age, attempt_end_age, notified,
                 reconf_local, nodeOk, pubs, vel_last, cyc, outcome>>

\* The rest of resetState(), planner_->initialize and lock.unlock() (lines
\* 548-551).
ReconfGlobalReset ==
  /\ reconf_pc = "g_reset"
  /\ ResetStateRest("reconf")
  /\ planner_mutex_' = "free"
  /\ IF reconf_local
     THEN /\ reconf_pc' = "l_clear"
          /\ UNCHANGED configuration_mutex_
     ELSE /\ reconf_pc' = "idle"
          /\ configuration_mutex_' = "free"
  /\ UNCHANGED <<runPlanner_, planner_goal_, planning_retries_,
                 new_global_plan_, bufv, agev, cfgv, fsv, plv, notified,
                 reconf_local, nodeOk, cyc, outcome, hist>>

\* The local planner is replaced (lines 571-573): the three vectors are
\* cleared; planner_mutex_ is not held.
ReconfLocalClear ==
  /\ reconf_pc = "l_clear"
  /\ ClearPlans
  /\ hist' = [hist EXCEPT !.fresh = FALSE]
  /\ reconf_pc' = "l_lock"
  /\ UNCHANGED <<sessv, runPlanner_, planner_goal_, planning_retries_,
                 new_global_plan_, agev, planner_mutex_, configuration_mutex_,
                 cfgv, fsv, planner_pc, temp_goal, wait_for_wake, timer,
                 start_age, attempt_end_age, notified, reconf_local, nodeOk,
                 pubs, vel_last, cyc, outcome>>

\* resetState(), first statement (line 574).
ReconfLocalLock ==
  /\ reconf_pc = "l_lock" /\ planner_mutex_ = "free"
  /\ runPlanner_' = FALSE
  /\ reconf_pc' = "l_reset"
  /\ UNCHANGED <<sessv, planner_goal_, planning_retries_, new_global_plan_,
                 bufv, agev, planner_mutex_, configuration_mutex_, cfgv, fsv,
                 plv, notified, reconf_local, nodeOk, pubs, vel_last, cyc,
                 outcome, hist>>

\* The rest of resetState(), tc_->initialize and the return (lines 574-591).
ReconfLocalReset ==
  /\ reconf_pc = "l_reset"
  /\ ResetStateRest("reconf")
  /\ reconf_pc' = "idle"
  /\ reconf_local' = FALSE
  /\ configuration_mutex_' = "free"
  /\ UNCHANGED <<runPlanner_, planner_goal_, planning_retries_,
                 new_global_plan_, bufv, agev, planner_mutex_, cfgv, fsv, plv,
                 notified, nodeOk, cyc, outcome, hist>>

\* void MoveBase::reconfigureCB(config, level)
reconfigureCB ==
  \/ \E kind \in {"global", "local", "both"} : ReconfBegin(kind)
  \/ ReconfGlobalLock
  \/ ReconfGlobalReset
  \/ ReconfLocalClear
  \/ ReconfLocalLock
  \/ ReconfLocalReset

\* ------------------------------------------------------------ planService
\* req.tolerance, and the resolution of the planner costmap, in one unit of
\* length; goal poses are offsets from req.goal in that unit.
MaxTolerance == 7
Tolerances == 0..MaxTolerance
Resolutions == {1, 2}

\* req.goal itself.
Exact == <<0, 0>>

\* as_->isActive() (line 677): a goal has been accepted and has no result
\* yet.
isActive == outcome = "active"

\* for (float v = first; v <= last; v += step): the values v takes.
Steps(first, last, step) ==
  [i \in 1..(IF last >= first THEN (last - first) \div step + 1 ELSE 0)
     |-> first + (i - 1) * step]

RECURSIVE Flatten(_)
Flatten(ss) == IF ss = <<>> THEN <<>> ELSE Head(ss) \o Flatten(Tail(ss))

\* search_increment without the test of req.tolerance.
SearchIncrementCells(resolution, tolerance) == resolution * 3

\* search_increment (lines 726-728): three cells, or req.tolerance if that
\* is positive and smaller.
SearchIncrement(resolution, tolerance) ==
  IF tolerance > 0 /\ tolerance < resolution * 3 THEN tolerance
  ELSE resolution * 3

\* The multipliers of an offset (lines 743-754): -1 is skipped for offset 0.
Mults(offset) == IF offset = 0 THEN <<1>> ELSE <<-1, 1>>

\* The goals tried at one pair of offsets (lines 743-757), y_mult outside
\* x_mult.
PointsAt(x_offset, y_offset) ==
  LET xm == Mults(x_offset)
      ym == Mults(y_offset)
  IN Flatten([i \in 1..Len(ym) |->
                [j \in 1..Len(xm) |-> <<x_offset * xm[j], y_offset * ym[i]>>]])

\* The goals tried in the layer max_offset (lines 731-757): y_offset
\* outside x_offset, pairs inside the layer skipped (lines 738-739).
Layer(max_offset, search_increment) ==
  LET offsets == Steps(0, max_offset, search_increment)
  IN Flatten([i \in 1..Len(offsets) |->
       Flatten([j \in 1..Len(offsets) |->
         IF offsets[j] < max_offset /\ offsets[i] < max_offset THEN <<>>
         ELSE PointsAt(offsets[j], offsets[i])])])

\* The goals the search would try, in order, if none had a plan (lines
\* 729-757).
Candidates(resolution, tolerance) ==
  LET search_increment == SearchIncrement(resolution, tolerance)
      layers == Steps(search_increment, tolerance, search_increment)
  IN Flatten([l \in 1..Len(layers) |-> Layer(layers[l], search_increment)])

\* The loops' && !found_legal (lines 729-775): goals are tried in order up
\* to the first for which planner_->makePlan returns a non-empty plan.
RECURSIVE Search(_, _, _)
Search(cands, feasible, tried) ==
  IF cands = <<>> THEN tried
  ELSE IF Head(cands) \in feasible THEN Append(tried, Head(cands))
  ELSE Search(Tail(cands), feasible, Append(tried, Head(cands)))

\* The sets of goals the global planner has a plan to: none, one or two of
\* the goals a request can make it try.
FeasibleSets(resolution, tolerance) ==
  LET cands == Candidates(resolution, tolerance)
      points == {Exact} \cup {cands[i] : i \in 1..Len(cands)}
  IN {{}} \cup {{a, b} : a, b \in points}

\* Every variable but srv, ccs_pc and nav.
corev ==
  <<state_, recovery_trigger_, recovery_index_, runPlanner_,
    planner_goal_, planning_retries_, new_global_plan_, bufv, agev,
    oscillation_pose_, planner_mutex_, configuration_mutex_,
    planner_frequency_, oscillation_timeout_, max_planning_retries_,
    recovery_behavior_enabled_, fsv, plv, notified, rcv,
    nodeOk, env, pubs, vel_last, cyc, outcome, hist>>

\* Every variable but srv.
mainv == <<corev, ccs_pc, nav>>

\* planService without the test of as_->isActive().
PsCallUnchecked(tolerance, resolution, start_known, clear, feasible) ==
  /\ srv.pc = "idle"
  /\ srv' = [pc |-> IF ~start_known THEN "done" ELSE "planning",
             tolerance |-> tolerance, resolution |-> resolution,
             start_known |-> start_known, clear |-> clear,
             feasible |-> feasible,
             tried |-> <<>>, cleared |-> FALSE, plan |-> <<>>, ret |-> FALSE]
  /\ UNCHANGED mainv

\* planService up to the start pose (lines 677-705): refused while a goal
\* is active, and when no start pose is given and getRobotPose fails.
\* tried: the goals passed to planner_->makePlan; cleared: whether
\* clearCostmapWindows was called; plan: resp.plan.poses; ret: the value
\* returned.
PsCall(tolerance, resolution, start_known, clear, feasible) ==
  /\ srv.pc = "idle"
  /\ srv' = [pc |-> IF isActive \/ ~start_known THEN "done" ELSE "planning",
             tolerance |-> tolerance, resolution |-> resolution,
             start_known |-> start_known, clear |-> clear,
             feasible |-> feasible,
             tried |-> <<>>, cleared |-> FALSE, plan |-> <<>>, ret |-> FALSE]
  /\ UNCHANGED mainv

\* The rest of planService (lines 707-795): clearCostmapWindows if
\* make_plan_clear_costmap_, the plan to req.goal, the search if there is
\* none, the copy into resp, and return true.
PsPlan ==
  /\ srv.pc = "planning"
  /\ LET searched == IF Exact \in srv.feasible THEN <<>>
                     ELSE Search(Candidates(srv.resolution, srv.tolerance),
                                 srv.feasible, <<>>)
         tried == <<Exact>> \o searched
         last == tried[Len(tried)]
     IN srv' = [srv EXCEPT !.pc = "done",
                           !.tried = tried,
                           !.cleared = srv.clear,
                           !.plan = IF last \in srv.feasible THEN <<last>>
                                    ELSE <<>>,
                           !.ret = TRUE]
  /\ UNCHANGED mainv

\* The service call is over.
PsReturn ==
  /\ srv.pc = "done"
  /\ srv' = NoService
  /\ UNCHANGED mainv

\* bool MoveBase::planService(req, resp)
planService ==
  \/ /\ srv.pc = "idle"
     /\ \E tolerance \in Tolerances, resolution \in Resolutions,
           start_known \in BOOLEAN, clear \in BOOLEAN :
          \E feasible \in FeasibleSets(resolution, tolerance) :
            PsCall(tolerance, resolution, start_known, clear, feasible)
  \/ PsPlan
  \/ PsReturn

\* --------------------------------------------------------------- costmaps
\* planner_costmap_ros_ and controller_costmap_ros_.
Costmaps == {"planner", "controller"}

\* bool MoveBase::clearCostmapsService(req, resp), up to the second lock
\* (lines 664-665): the mutex of the controller costmap is taken and
\* controller_costmap_ros_->resetLayers() runs.  executeCycle holds that
\* mutex from line 1386 to line 1431: inside its step of case CONTROLLING
\* and, in the re-plan branch, until it has taken planner_mutex_.
CcsController ==
  /\ ccs_pc = "idle"
  /\ ~(fsm_pc = "wake_lock" /\ cyc = "replan")
  /\ ccs_pc' = "controller"
  /\ UNCHANGED <<corev, srv, nav>>

\* CcsPlanner as it would be if the service also took
\* configuration_mutex_ after the controller costmap's mutex.
CcsPlannerConfigured ==
  /\ ccs_pc = "controller"
  /\ planner_pc # "making"
  /\ configuration_mutex_ = "free"
  /\ ccs_pc' = "idle"
  /\ UNCHANGED <<corev, srv, nav>>

\* The rest of clearCostmapsService (lines 667-669): the mutex of the
\* planner costmap is taken, which MoveBase::makePlan holds while the
\* planner thread is in it (line 829); planner_costmap_ros_->resetLayers();
\* return true, and both locks are released.
CcsPlanner ==
  /\ ccs_pc = "controller"
  /\ planner_pc # "making"
  /\ ccs_pc' = "idle"
  /\ UNCHANGED <<corev, srv, nav>>

clearCostmapsService == CcsController \/ CcsPlanner

\* The threads that hold the mutex of costmap c between two steps:
\* planThread inside MoveBase::makePlan (line 829), clearCostmapsService
\* after line 664, executeCycle in the re-plan branch of case CONTROLLING
\* (lines 1386-1431) before lock(planner_mutex_) at line 1425.
CostmapHolders(c) ==
  IF c = "planner"
  THEN IF planner_pc = "making" THEN {"planThread"} ELSE {}
  ELSE (IF ccs_pc = "controller" THEN {"clearCostmapsService"} ELSE {})
       \cup (IF fsm_pc = "wake_lock" /\ cyc = "replan"
             THEN {"executeCycle"} ELSE {})

\* The threads that are reading or writing many cells of costmap c between
\* two steps: planThread inside MoveBase::makePlan (line 856); planService
\* from line 707 to line 795, in clearCostmapWindows (lines 632, 657) when
\* make_plan_clear_costmap_ is set and in planner_->makePlan (lines 715,
\* 759); clearCostmapsService in resetLayers (line 665).
CostmapUsers(c) ==
  IF c = "planner"
  THEN (IF planner_pc = "making" THEN {"planThread"} ELSE {})
       \cup (IF srv.pc = "planning" THEN {"planService"} ELSE {})
  ELSE (IF ccs_pc = "controller" THEN {"clearCostmapsService"} ELSE {})
       \cup (IF srv.pc = "planning" /\ srv.clear THEN {"planService"} ELSE {})

\* ------------------------------------------------------------- NavfnROS
\* The global costmap: NX by NY cells of Resolution units of length, with
\* its origin at (0, 0).  A cell is <<mx, my>>, a point <<wx, wy>>.
NX == 3
NY == 2
Resolution == 2
Cells == (0..NX - 1) \X (0..NY - 1)

\* What the model keeps of worldToMap returning false.
OffMap == <<0 - 1, 0 - 1>>

\* costmap_->worldToMap(wx, wy, mx, my): the cell of an on-map point, or
\* OffMap.
worldToMap(w) ==
  IF w[1] < 0 \/ w[2] < 0 THEN OffMap
  ELSE LET m == <<w[1] \div Resolution, w[2] \div Resolution>>
       IN IF m \in Cells THEN m ELSE OffMap

\* void NavfnROS::mapToWorld(mx, my, wx, wy) (lines 198-202).
mapToWorld(m) == <<m[1] * Resolution, m[2] * Resolution>>

\* NavFn::calcNavFnDijkstra: the cells whose potential is below POT_HIGH
\* once it has spread from cell from over the cells that are not in
\* lethal: the cells joined to from by a chain of such cells, each next
\* to the one before.
RECURSIVE Spread(_, _)
Spread(reached, lethal) ==
  LET more == {c \in Cells \ lethal :
                 \E d \in reached :
                   (c[1] - d[1]) * (c[1] - d[1])
                     + (c[2] - d[2]) * (c[2] - d[2]) = 1}
  IN IF more \subseteq reached THEN reached
     ELSE Spread(reached \cup more, lethal)

\* NavFn::calcPath and getPathX, getPathY, getPathLen: the path found by
\* descending the potential from cell from (NavFn's start) to cell to
\* (NavFn's goal), of which the model keeps the two ends; no path where the
\* potential is POT_HIGH.
calcPath(from, to, low) ==
  IF from \notin low THEN <<>>
  ELSE IF from = to THEN <<from>>
  ELSE <<from, to>>

\* bool NavfnROS::getPlanFromPotential(goal, plan) (lines 403-466) for a
\* planner that is initialised and a goal in the global frame: the plan
\* it leaves, the path reversed and in world coordinates.
getPlanFromPotential(goal, robot, low) ==
  IF worldToMap(goal) = OffMap THEN <<>>
  ELSE LET path == calcPath(worldToMap(goal), robot, low)
       IN [i \in 1..Len(path) |-> mapToWorld(path[Len(path) + 1 - i])]

\* The points of the tolerance window in the order the two while loops
\* visit them (lines 300-318): y outside x, from goal - tolerance in steps
\* of the resolution.
Window(goal, tolerance) ==
  LET xs == Steps(goal[1] - tolerance, goal[1] + tolerance, Resolution)
      ys == Steps(goal[2] - tolerance, goal[2] + tolerance, Resolution)
  IN Flatten([j \in 1..Len(ys) |-> [i \in 1..Len(xs) |-> <<xs[i], ys[j]>>]])

\* sq_distance(p1, p2)
sq_distance(p, q) ==
  (p[1] - q[1]) * (p[1] - q[1]) + (p[2] - q[2]) * (p[2] - q[2])

\* bool NavfnROS::makePlan(start, goal, tolerance, plan) (lines 211-373):
\* the value returned and the plan left in the caller's vector.  in is the
\* call: whether initialize() has run, whether the frames of start and
\* goal are the global frame, the two positions, the tolerance, the lethal
\* cells of the costmap and what the caller's vector holds.
NavfnMakePlan(in) ==
  LET robot == worldToMap(in.start)
      lethal == in.lethal \ {robot}
      low == Spread({robot}, lethal)
      window == Window(in.goal, in.tolerance)
      legal == {i \in 1..Len(window) : worldToMap(window[i]) \in low}
      best == CHOOSE i \in legal :
                \A j \in legal :
                  \/ sq_distance(window[i], in.goal)
                       < sq_distance(window[j], in.goal)
                  \/ /\ sq_distance(window[i], in.goal)
                          = sq_distance(window[j], in.goal)
                     /\ i <= j
      path == getPlanFromPotential(window[best], robot, low)
      plan == IF legal = {} \/ path = <<>> THEN <<>>
              ELSE Append(path, window[best])
  IN IF ~in.initialized THEN [ret |-> FALSE, plan |-> in.plan]
     ELSE IF ~in.goal_frame \/ ~in.start_frame \/ robot = OffMap
     THEN [ret |-> FALSE, plan |-> <<>>]
     ELSE IF worldToMap(in.goal) = OffMap /\ in.tolerance <= 0
     THEN [ret |-> FALSE, plan |-> <<>>]
     ELSE [ret |-> plan # <<>>, plan |-> plan]

\* The calls that are made: a robot on the map or off it, a goal on the
\* map, between cells or off the map, a tolerance of nothing, half a cell
\* or a cell, at most two lethal cells, and a vector that is empty or holds
\* an earlier plan.
NavCalls ==
  [initialized : BOOLEAN, goal_frame : BOOLEAN, start_frame : BOOLEAN,
   start : {<<1, 1>>, <<5, 3>>, <<0 - 1, 1>>},
   goal : (0 - 1..NX * Resolution) \X (0..NY * Resolution - 1),
   tolerance : {0, 1, Resolution},
   lethal : {{}} \cup {{a, b} : a, b \in Cells},
   plan : {<<>>, <<<<0, 0>>>>}]

\* One call of NavfnROS::makePlan.
NavCall ==
  /\ nav.pc = "idle"
  /\ \E in \in NavCalls :
       nav' = [pc |-> "done", in |-> in, out |-> NavfnMakePlan(in)]
  /\ UNCHANGED <<corev, srv, ccs_pc>>

\* The caller has used the result.
NavReturn ==
  /\ nav.pc = "done"
  /\ nav' = NoService
  /\ UNCHANGED <<corev, srv, ccs_pc>>

\* ------------------------------------------------------ specifications
Next == executeCb \/ executeCycle \/ planThread \/ Tick \/ wakePlanner \/ Shutdown

Spec == Init /\ [][Next]_vars

TypeOK ==
  /\ state_ \in MoveBaseState
  /\ recovery_trigger_ \in RecoveryTrigger
  /\ recovery_index_ \in 0..NumRecoveries
  /\ planning_retries_ \in 0..RetriesCap
  /\ oscillation_pose_ \in Positions
  /\ srv.pc \in {"idle", "planning", "done"}
  /\ Len(pubs) <= 4
  /\ planner_mutex_ \in {"free", "planner", "reconf"}
  /\ configuration_mutex_ \in {"free", "fsm", "reconf"}

\* The control loop, the planner thread and reconfigureCB, with one goal at
\* a time and a node that stays up.
InitRc == InitWith(Config(0, 1, 1, TRUE), AnyEnv)

NextRc == executeCbRun \/ executeCycle \/ planThread \/ Tick \/ reconfigureCB

SpecRc == InitRc /\ [][NextRc]_vars

\* The environment of a robot that is stuck: the controller costmap stays
\* current, the local planner accepts every plan but neither reaches the
\* goal nor finds a velocity; the global planner finds a plan or not.
StuckEnv == [planner |-> "any", controller |-> "fail", costmap |-> "current"]

\* The environment in which the global planner always finds a plan, the
\* local planner accepts it but never finds a velocity nor reaches the goal,
\* and the controller costmap stays current.
NoVelocityEnv == [planner |-> "ok", controller |-> "fail", costmap |-> "current"]

\* The control loop and the planner thread under fair scheduling, with one
\* goal at a time and a node that stays up: each thread that can take a step
\* eventually does, and time passes.
InitFair == \E e \in {AnyEnv, StuckEnv, NoVelocityEnv} : InitWith(Config(0, 1, 1, TRUE), e)

NextFair == executeCbRun \/ executeCycle \/ planThread \/ Tick

SpecFair ==
  /\ InitFair /\ [][NextFair]_vars
  /\ WF_vars(executeCbRun \/ executeCycle)
  /\ WF_vars(planThread)
  /\ SF_vars(Tick)

\* The environment in which the global planner never finds a plan and the
\* controller costmap stays current.
PlannerFailEnv == [planner |-> "fail", controller |-> "any", costmap |-> "current"]

\* The same threads under the same fairness, configured with
\* max_planning_retries_ = -1 (no limit on the attempts) and no oscillation
\* timeout, so that planner_patience_ alone ends the planning.
InitPatience ==
  \E e \in {AnyEnv, PlannerFailEnv} : InitWith(Config(0, 0, -1, TRUE), e)

SpecPatience ==
  /\ InitPatience /\ [][NextFair]_vars
  /\ WF_vars(executeCbRun \/ executeCycle)
  /\ WF_vars(planThread)
  /\ SF_vars(Tick)

\* planService beside an action server whose goals are accepted and then
\* cancelled before the first control cycle.
NextSrv ==
  \/ planService
  \/ \E q \in Quats : executeCbReject(q)
  \/ \E q \in Quats : executeCbAccept(q)
  \/ GoalLock("cb_lock", "cb_anchors")
  \/ ResetAnchors("cb_anchors", "loop")
  \/ LoopCancel
  \/ ResetLock
  \/ ResetRest
  \/ Return

SpecSrv == InitRc /\ [][NextSrv]_vars

\* The two services and the planner thread beside an action server whose
\* goals are accepted and then cancelled before the first control cycle;
\* planService is asked for plans to the exact goal only.
NextCostmap ==
  \/ clearCostmapsService
  \/ /\ srv.pc = "idle"
     /\ \E start_known \in BOOLEAN, clear \in BOOLEAN :
          \E feasible \in FeasibleSets(1, 0) :
            PsCall(0, 1, start_known, clear, feasible)
  \/ PsPlan
  \/ PsReturn
  \/ PlannerWake
  \/ makePlan
  \/ PlannerGotPlan
  \/ PlannerFailLock
  \/ PlannerFailPublish
  \/ \E q \in Quats : executeCbReject(q)
  \/ \E q \in Quats : executeCbAccept(q)
  \/ GoalLock("cb_lock", "cb_anchors")
  \/ ResetAnchors("cb_anchors", "loop")
  \/ LoopCancel
  \/ ResetLock
  \/ ResetRest
  \/ Return
  \/ Tick

SpecCostmap == InitRc /\ [][NextCostmap]_vars

\* The four threads that take planner_mutex_, configuration_mutex_ and the
\* costmaps' mutexes, with a local controller that never finds a velocity
\* and never reports the goal reached: what the control loop does for one
\* goal after another, the planner thread, reconfigureCB and
\* clearCostmapsService.
LoopLocks ==
  \/ \E q \in Quats : executeCbReject(q)
  \/ \E q \in Quats : executeCbAccept(q)
  \/ GoalLock("cb_lock", "cb_anchors")
  \/ ResetAnchors("cb_anchors", "loop")
  \/ LoopNoPreempt
  \/ executeCycle
  \/ ResetRest
  \/ Return

NextLocks ==
  LoopLocks \/ planThread \/ Tick \/ reconfigureCB \/ clearCostmapsService

SpecLocks ==
  InitWith(Config(0, 1, 1, TRUE), StuckEnv) /\ [][NextLocks]_vars

\* Calls of the global planner, one after the other.
SpecNavfn == InitRc /\ [][NavCall \/ NavReturn]_vars

\* ---------------------------------------------------------------- C1
\* A message on cmd_vel published by executeCb's thread.
FsmZero == <<"fsm", "zero">>
FsmCmd == <<"fsm", "cmd">>

\* C1: under fair scheduling of the control loop and the planner thread,
\* with finite planner_patience_ and controller_patience_, executeCb
\* eventually returns for every accepted goal; the loop does not cycle
\* through PLANNING, CONTROLLING and CLEARING forever.  Stated for one of the
\* environments the claim ranges over, the stuck robot of StuckEnv, in
\* which no velocity is ever valid and the costmap is always current.
C1_AlwaysReturns ==
  (outcome = "active" /\ env = StuckEnv) ~> (fsm_pc = "returned")

\* ---------------------------------------------------------------- C2
\* C2: whenever executeCycle swaps latest_plan_ into controller_plan_ and
\* calls setPlan, what it takes is the plan the planner thread published
\* last, and one it has not taken before.
C2_TakesLatestPlan ==
  [][(fsm_pc = "swap" /\ fsm_pc' # "swap") => Taken(latest_plan_) = "latest"]_vars

\* ---------------------------------------------------------------- C3
\* C3: no vector is cleared by another thread while the planner thread is
\* filling it, and the vector handed to setPlan is never such a one.
C3_NoTornPath == controller_plan_.k # "torn" /\ planner_plan_.k # "writing_torn"

\* ---------------------------------------------------------------- C4
\* C4: whenever executeCb returns from an accepted goal, and whenever a
\* cycle ends without a computed velocity because of a costmap that is not
\* current or a controller failure, the last message on cmd_vel is a
\* zero velocity.
C4_ZeroBeforeYield ==
  /\ (fsm_pc = "returned" /\ outcome # "REJECTED") => vel_last = "zero"
  /\ (fsm_pc = "cycle_end" /\ cyc \in {"stale", "timeout"}) => vel_last = "zero"

\* ---------------------------------------------------------------- C5
\* C5: when the iteration that accepted a preempting goal reaches the
\* switch on state_, planner_goal_ is the new goal, runPlanner_ is true,
\* state_ is PLANNING, recovery_index_ and planning_retries_ are 0, and
\* last_valid_plan_ and last_valid_control_ are the acceptance time.
C5_PreemptResetAtDispatch ==
  (fsm_pc = "dispatch" /\ cyc = "newgoal") =>
     /\ planner_goal_ = "current"
     /\ runPlanner_
     /\ state_ = "PLANNING"
     /\ recovery_index_ = 0
     /\ planning_retries_ = 0
     /\ age_valid_plan = 0 /\ age_valid_control = 0

\* ---------------------------------------------------------------- C6
\* C6: a call of executeCb with a goal whose quaternion is invalid sets the
\* goal aborted as rejected and returns; runPlanner_, planner_goal_, the
\* planner's wake-up, cmd_vel, state_, recovery_index_, recovery_trigger_,
\* the anchors and the plans are as before.
C6_RejectHasNoEffect ==
  [][\A q \in Quats :
       (/\ fsm_pc = "idle" /\ fsm_pc' # "idle" /\ ~isQuaternionValid(q)
        /\ (executeCbReject(q) \/ executeCbAccept(q)))
       => /\ outcome' = "REJECTED" /\ fsm_pc' = "returned"
          /\ UNCHANGED <<runPlanner_, planner_goal_, notified, planner_pc,
                         pubs, vel_last, sessv, agev, planning_retries_,
                         new_global_plan_, bufv>>]_vars

\* An invalid goal was rejected while the planner thread was waiting and
\* nothing had been published.
C6_Witness ==
  /\ fsm_pc = "returned" /\ outcome = "REJECTED"
  /\ ~runPlanner_ /\ planner_pc = "waiting" /\ ~notified /\ pubs = <<>>

\* ---------------------------------------------------------------- C7
\* executeCb has returned from a cancel.
Cancelled == fsm_pc = "returned" /\ outcome = "PREEMPTED"

\* C7: when executeCb returns from a cancel, runPlanner_ is false, state_
\* is PLANNING, recovery_index_ is 0, recovery_trigger_ is PLANNING_R, a
\* zero velocity was published and executeCycle did not run in that
\* iteration; from then until a goal is accepted the planner thread enters
\* makePlan no more.
C7_CancelStopsPlanner ==
  [][/\ Cancelled' => /\ ~runPlanner_' /\ state_' = "PLANNING"
                      /\ recovery_index_' = 0
                      /\ recovery_trigger_' = "PLANNING_R"
                      /\ vel_last' = "zero"
                      /\ \E i \in 1..Len(pubs') : pubs'[i] = FsmZero
                      /\ cyc' = "none"
     /\ (hist.cancelled /\ planner_pc # "making") => planner_pc' # "making"]_vars

\* executeCb has returned from a cancel that came while the planner thread
\* was inside makePlan.
C7_Witness == Cancelled /\ planner_pc = "making" /\ hist.cancelled

\* ---------------------------------------------------------------- C8
\* C8: a call of executeCycle that finds the controller costmap not current
\* publishes one zero velocity and returns false; new_global_plan_, the
\* three plans, state_, recovery_trigger_ and runPlanner_ are as before,
\* and neither the plan is taken nor the state dispatched.
C8_StaleCostmapOnlyStops ==
  [][\A position \in Positions :
       (fsm_pc = "cycle" /\ fsm_pc' # "cycle" /\ CycleBegin(position, FALSE))
       => /\ pubs' = <<FsmZero>> /\ vel_last' = "zero"
          /\ fsm_pc' = "cycle_end" /\ cyc' = "stale"
          /\ UNCHANGED <<new_global_plan_, bufv, state_, recovery_trigger_,
                         runPlanner_, hist>>]_vars

\* A cycle has ended on a costmap that is not current, with a plan pending
\* in CONTROLLING.
C8_Witness ==
  /\ fsm_pc = "cycle_end" /\ cyc = "stale"
  /\ new_global_plan_ /\ hist.fresh /\ state_ = "CONTROLLING"

\* ---------------------------------------------------------------- C9
\* C9: a recovery behaviour starts only when every write of CLEARING to
\* state_ has had its zero velocity published.
C9_ZeroBeforeRecovery ==
  [][(fsm_pc = "dispatch" /\ fsm_pc' = "clr_after") => hist.clearing_zero]_vars

\* --------------------------------------------------------------- C10
\* C10: a cycle that dispatched CONTROLLING and got a valid velocity from
\* the local planner has published exactly one message on cmd_vel, the
\* computed velocity.
C10_OneMessagePerValidCycle ==
  (fsm_pc = "cycle_end" /\ cyc = "valid") => pubs = <<FsmCmd>>

\* ---------------------------------------------------------------- C11
\* Whether a message is among those published during the cycle.
InCycle(log, m) == \E i \in 1..Len(log) : log[i] = m

\* C11: a cycle that dispatches in CONTROLLING with the goal not reached
\* and the oscillation timeout expired publishes a zero velocity, ends with
\* state_ = CLEARING and recovery_trigger_ = OSCILLATION_R, and publishes no
\* velocity computed by the local planner.
C11_OscillationEndsCycle ==
  [][\A valid \in BOOLEAN :
       (/\ fsm_pc = "dispatch" /\ fsm_pc' # "dispatch" /\ Oscillating
        /\ DispatchControlling(FALSE, valid))
       => /\ InCycle(pubs', FsmZero) /\ ~InCycle(pubs', FsmCmd)
          /\ state_' = "CLEARING"
          /\ recovery_trigger_' = "OSCILLATION_R"]_vars

\* ---------------------------------------------------------------- C12
\* C12: when computeVelocityCommands fails in CONTROLLING, past
\* controller_patience_ the cycle publishes a zero velocity and sets state_
\* = CLEARING with recovery_trigger_ = CONTROLLING_R; within it, it
\* publishes a zero velocity, sets state_ = PLANNING, last_valid_plan_ = now
\* and planning_retries_ = 0, then sets runPlanner_ and notifies the planner
\* thread.  With a planner that always succeeds and a local planner that
\* never finds a velocity, no computed velocity is ever published, state_
\* becomes CLEARING only past controller_patience_ and only with
\* CONTROLLING_R, and under fair scheduling every accepted goal's state_
\* does become CLEARING.
C12_ControllerFailure ==
  /\ [][DispatchControlling(FALSE, FALSE)
        => /\ InCycle(pubs', FsmZero) /\ vel_last' = "zero"
           /\ IF age_valid_control > controller_patience_
              THEN /\ state_' = "CLEARING"
                   /\ recovery_trigger_' = "CONTROLLING_R"
                   /\ fsm_pc' = "cycle_end"
              ELSE /\ state_' = "PLANNING"
                   /\ age_valid_plan' = 0 /\ planning_retries_' = 0
                   /\ fsm_pc' = "wake_lock"]_vars
  /\ [][(fsm_pc = "wake_lock" /\ fsm_pc' # "wake_lock")
        => runPlanner_' /\ (planner_pc = "waiting" => notified')]_vars
  /\ [](env = NoVelocityEnv => vel_last # "cmd")
  /\ [][(env = NoVelocityEnv /\ state_ # "CLEARING" /\ state_' = "CLEARING")
        => /\ recovery_trigger_' = "CONTROLLING_R"
           /\ age_valid_control > controller_patience_]_vars
  /\ (env = NoVelocityEnv /\ fsm_pc = "cb_lock")
       ~> (state_ = "CLEARING" /\ recovery_trigger_ = "CONTROLLING_R")

\* With a planner that always succeeds and a local planner that never finds
\* a velocity, a cycle has ended in CLEARING on controller patience, before
\* any recovery behaviour has run.
C12_Witness ==
  /\ env = NoVelocityEnv
  /\ fsm_pc = "cycle_end" /\ cyc = "timeout"
  /\ state_ = "CLEARING" /\ recovery_trigger_ = "CONTROLLING_R"
  /\ vel_last = "zero" /\ recovery_index_ = 0

\* ---------------------------------------------------------------- C13
\* C13: with a global planner that always fails and max_planning_retries_ =
\* -1, state_ becomes CLEARING only when planner_patience_ has elapsed since
\* last_valid_plan_, and recovery_trigger_ is PLANNING_R; a recovery
\* behaviour runs at an index below the chain's length and is followed by
\* recovery_index_ + 1, state_ = PLANNING and last_valid_plan_ = now;
\* recovery_index_ changes in no other way while the goal is active, so the
\* behaviours run once each, in order; the goal ends only as aborted for
\* want of a plan, with the chain used up, and under fair scheduling it does
\* end.
C13_PlannerFailureRecovery ==
  /\ [](env = PlannerFailEnv => recovery_trigger_ = "PLANNING_R")
  /\ [](env = PlannerFailEnv /\ fsm_pc = "cb_lock" => recovery_index_ = 0)
  /\ [][(env = PlannerFailEnv /\ state_ # "CLEARING" /\ state_' = "CLEARING")
        => age_valid_plan > planner_patience_]_vars
  /\ [][(env = PlannerFailEnv /\ fsm_pc = "dispatch" /\ fsm_pc' = "clr_after")
        => state_ = "CLEARING" /\ recovery_index_ < NumRecoveries]_vars
  /\ [][(env = PlannerFailEnv /\ fsm_pc = "clr_after" /\ fsm_pc' # "clr_after")
        => /\ recovery_index_' = recovery_index_ + 1
           /\ state_' = "PLANNING" /\ age_valid_plan' = 0]_vars
  /\ [][(/\ env = PlannerFailEnv /\ outcome = "active" /\ outcome' = "active"
         /\ fsm_pc # "clr_after")
        => recovery_index_' = recovery_index_]_vars
  /\ [][(env = PlannerFailEnv /\ outcome = "active" /\ outcome' # "active")
        => outcome' = "ABORTED_PLAN" /\ recovery_index_ = NumRecoveries]_vars
  /\ (env = PlannerFailEnv /\ fsm_pc = "cb_lock") ~> (outcome = "ABORTED_PLAN")

\* ---------------------------------------------------------------- C14
\* C14: recovery_index_ never exceeds recovery_behaviors_.size(), a
\* behaviour runs only at an index below the size, and when executeCb has
\* returned with the goal succeeded recovery_index_ is 0.
C14_RecoveryIndexInRange ==
  /\ recovery_index_ <= NumRecoveries
  /\ fsm_pc = "clr_after" => recovery_index_ < NumRecoveries
  /\ (fsm_pc = "returned" /\ outcome = "SUCCEEDED") => recovery_index_ = 0

\* The goal was reached after every behaviour of the chain had run:
\* resetState() is about to put recovery_index_ back.
C14_Witness ==
  /\ fsm_pc = "reset_rest" /\ fsm_ret = "succ"
  /\ recovery_index_ = NumRecoveries /\ NumRecoveries > 0

\* ---------------------------------------------------------------- C15
\* C15: planning_retries_ is 0 when executeCb has finished accepting a goal
\* (lines 1094, 1147), when the planner thread has published a plan, and
\* when state_ becomes CONTROLLING; and once a goal is accepted and
\* planning_retries_ reset, the planner thread counts a failed attempt only
\* if the attempt was made for that goal.
C15_RetriesCountCurrentGoal ==
  /\ [][(fsm_pc \in {"cb_anchors", "pre_anchors"} /\ fsm_pc' # fsm_pc)
        => planning_retries_' = 0]_vars
  /\ [][(planner_pc = "got_lock" /\ planner_pc' # "got_lock")
        => planning_retries_' = 0]_vars
  /\ [][(state_ # "CONTROLLING" /\ state_' = "CONTROLLING")
        => planning_retries_' = 0]_vars
  /\ [][(/\ planner_pc = "fail_lock" /\ planner_pc' # "fail_lock"
         /\ outcome = "active"
         /\ fsm_pc \notin {"cb_lock", "cb_anchors", "pre_lock", "pre_anchors"})
        => temp_goal # "stale"]_vars

\* ---------------------------------------------------------------- C16
\* C16: the head of executeCycle sets last_oscillation_reset_ = now and
\* oscillation_pose_ = the current position if the distance between that
\* position and oscillation_pose_ is at least oscillation_distance_, and
\* leaves both alone if it is less; besides, last_oscillation_reset_ is
\* set only where executeCb finishes accepting a goal and where a recovery
\* behaviour has returned, and oscillation_pose_ nowhere else.
C16_OscillationResetOnDisplacement ==
  /\ [][\A position \in Positions, current \in BOOLEAN :
          (/\ fsm_pc = "cycle" /\ fsm_pc' # "cycle"
           /\ CycleBegin(position, current))
          => IF distance(position, oscillation_pose_) >= oscillation_distance_
             THEN age_oscillation_reset' = 0 /\ oscillation_pose_' = position
             ELSE UNCHANGED <<age_oscillation_reset, oscillation_pose_>>]_vars
  /\ [][age_oscillation_reset' < age_oscillation_reset
        => /\ age_oscillation_reset' = 0
           /\ fsm_pc \in {"cycle", "cb_anchors", "pre_anchors", "clr_after"}
           /\ fsm_pc' # fsm_pc]_vars
  /\ [][oscillation_pose_' # oscillation_pose_
        => fsm_pc = "cycle" /\ fsm_pc' # "cycle"]_vars

\* A cycle has begun at exactly oscillation_distance_ from the anchor, long
\* after the goal was accepted: the oscillation anchor is new, the others
\* are old.
C16_Witness ==
  /\ fsm_pc = "ingest" /\ oscillation_pose_ = oscillation_distance_
  /\ oscillation_timeout_ > 0 /\ age_oscillation_reset = 0
  /\ age_valid_control = ControlAgeCap /\ age_valid_plan = PlanAgeCap

\* ---------------------------------------------------------------- C17
\* executeCb has returned from the abort that ends the recovery.
RecoveryAborted ==
  /\ fsm_pc = "returned"
  /\ outcome \in {"ABORTED_CONTROL", "ABORTED_PLAN", "ABORTED_OSCILLATION"}

\* C17: a dispatch that finds state_ = CLEARING with recovery_index_ at the
\* chain's length, or with the recovery behaviours disabled, goes to the
\* abort; the abort clears runPlanner_ and sets the goal aborted with the
\* reason of the recovery_trigger_ it reads; and when executeCb has returned
\* from it, runPlanner_ is false, state_ is PLANNING, recovery_index_ is 0
\* and a zero velocity is the last message published.
C17_AbortWhenRecoveryExhausted ==
  /\ [][(/\ fsm_pc = "dispatch" /\ fsm_pc' # "dispatch"
         /\ state_ = "CLEARING"
         /\ (~recovery_behavior_enabled_ \/ recovery_index_ >= NumRecoveries))
        => fsm_pc' = "abort_lock" /\ UNCHANGED <<sessv, pubs>>]_vars
  /\ [][(fsm_pc = "abort_lock" /\ fsm_pc' # "abort_lock")
        => /\ ~runPlanner_'
           /\ recovery_trigger_ = "CONTROLLING_R" => outcome' = "ABORTED_CONTROL"
           /\ recovery_trigger_ = "PLANNING_R" => outcome' = "ABORTED_PLAN"
           /\ recovery_trigger_ = "OSCILLATION_R"
                => outcome' = "ABORTED_OSCILLATION"
           /\ fsm_pc' = "reset_rest"]_vars
  /\ [][(fsm_pc = "reset_rest" /\ fsm_ret = "abort" /\ fsm_pc' # "reset_rest")
        => RecoveryAborted']_vars
  /\ [](RecoveryAborted
        => /\ ~runPlanner_ /\ state_ = "PLANNING" /\ recovery_index_ = 0
           /\ vel_last = "zero" /\ InCycle(pubs, FsmZero))

\* A goal was aborted for oscillation after the recovery behaviours were
\* used up.
C17_Witness ==
  /\ RecoveryAborted /\ outcome = "ABORTED_OSCILLATION"
  /\ recovery_behavior_enabled_

\* --------------------------------------------------------------- C18
\* C18: a call of planService made while a goal is active returns false,
\* and from the call to its return no costmap window is cleared, the
\* global planner is not called, and the plan buffers, the state machine
\* and every other variable of the node are as they were.
C18_RefusedWhileGoalActive ==
  /\ [][(srv.pc = "idle" /\ srv'.pc # "idle" /\ outcome = "active")
          => /\ srv'.pc = "done"
             /\ ~srv'.ret
             /\ srv'.tried = <<>>
             /\ ~srv'.cleared
             /\ UNCHANGED mainv]_vars
  /\ [][(srv.pc = "done" /\ srv'.pc # "done")
          => srv'.pc = "idle" /\ UNCHANGED mainv]_vars

\* A request with a known start pose, which wants the costmap cleared and
\* has a plan to its goal, has been refused; the goal is still active.
C18_Witness ==
  /\ srv.pc = "done" /\ ~srv.ret
  /\ srv.start_known /\ srv.clear /\ Exact \in srv.feasible
  /\ srv.tried = <<>> /\ ~srv.cleared
  /\ outcome = "active"

\* --------------------------------------------------------------- C19
\* planService has searched: there was no plan to req.goal and the call
\* went on to its end.
Searched == srv.pc = "done" /\ srv.ret /\ Exact \notin srv.feasible

\* What the search tried, for a search stepped by step: only goals whose
\* offsets are multiples of step and at most req.tolerance in absolute
\* value, none of them twice, layer after layer outward, none after the
\* first with a plan, and none left out before the search ended.
GridSearch(step) ==
  LET t == Tail(srv.tried)
      T == srv.tolerance
      Abs(v) == IF v >= 0 THEN v ELSE 0 - v
      Ring(g) == IF Abs(g[1]) >= Abs(g[2]) THEN Abs(g[1]) ELSE Abs(g[2])
      grid == {g \in (0 - T..T) \X (0 - T..T) :
                 g # Exact /\ g[1] % step = 0 /\ g[2] % step = 0}
  IN /\ srv.tried[1] = Exact
     /\ \A i \in 1..Len(t) : t[i] \in grid
     /\ \A i, j \in 1..Len(t) : i < j =>
          t[i] # t[j] /\ Ring(t[i]) <= Ring(t[j])
     /\ \A i \in 1..Len(t) : i < Len(t) => t[i] \notin srv.feasible
     /\ \A g \in grid :
          (t = <<>> \/ t[Len(t)] \notin srv.feasible
             \/ Ring(g) < Ring(t[Len(t)]))
          => \E i \in 1..Len(t) : t[i] = g
     /\ srv.plan = IF t # <<>> /\ t[Len(t)] \in srv.feasible
                   THEN <<t[Len(t)]>> ELSE <<>>

\* C19 as stated: when there is no plan to the exact goal, the search is
\* stepped by max(3*resolution, tolerance), stays within tolerance in x and
\* in y, tries no goal twice and stops at the first goal with a plan.
C19_SteppedByMax ==
  Searched =>
    GridSearch(IF srv.resolution * 3 >= srv.tolerance
               THEN srv.resolution * 3 ELSE srv.tolerance)

\* C19, amended: the step is 3*resolution, or the tolerance when that is
\* positive and smaller (the minimum of the two, not the maximum); the
\* search stays within tolerance in x and in y, tries no goal twice, goes
\* outward layer by layer, leaves no goal of the grid out, and stops at the
\* first goal with a plan.
C19_SteppedByMin ==
  Searched =>
    GridSearch(IF srv.tolerance = 0 \/ srv.resolution * 3 <= srv.tolerance
               THEN srv.resolution * 3 ELSE srv.tolerance)

\* A search stepped by a tolerance smaller than three cells has found a
\* plan after more than one goal without one.
C19_Witness ==
  /\ Searched
  /\ srv.tolerance > 0 /\ srv.tolerance < srv.resolution * 3
  /\ Len(srv.tried) > 3
  /\ srv.plan # <<>>

\* --------------------------------------------------------------- C20
\* C20: planService returns true if and only if it returns a non-empty
\* plan in the response, to the exact goal or to a goal within tolerance;
\* when no plan is found it returns false.
C20_TrueIffPlanFound ==
  srv.pc = "done" => (srv.ret <=> srv.plan # <<>>)

\* --------------------------------------------------------------- C21
\* C21: every multi-cell read or write of a costmap by the node is done
\* by a thread that holds that costmap's mutex: plan generation by the
\* planner thread and by planService, the clearing of polygons by
\* clearCostmapWindows and resetLayers in clearCostmapsService, on both
\* costmaps.
C21_CostmapAccessUnderMutex ==
  \A c \in Costmaps : CostmapUsers(c) \subseteq CostmapHolders(c)

\* --------------------------------------------------------------- C22
\* C22: when NavfnROS::makePlan returns true the plan is not empty, its
\* first pose is in the robot's cell and its last pose is the point of the
\* tolerance window around the goal that is on the map, has a potential
\* below POT_HIGH and is closest to the goal, which is the goal itself
\* when the goal is such a point; when it returns false the plan is empty.
C22_PlanFromStartToBestPose ==
  nav.pc = "done" =>
    LET in == nav.in
        plan == nav.out.plan
        robot == worldToMap(in.start)
        low == Spread({robot}, in.lethal \ {robot})
        window == {w \in (in.goal[1] - in.tolerance..in.goal[1] + in.tolerance)
                          \X (in.goal[2] - in.tolerance..in.goal[2] + in.tolerance) :
                     worldToMap(w) \in low}
    IN IF nav.out.ret
       THEN /\ plan # <<>>
            /\ worldToMap(plan[1]) = robot
            /\ plan[Len(plan)] \in window
            /\ \A w \in window :
                 sq_distance(plan[Len(plan)], in.goal) <= sq_distance(w, in.goal)
       ELSE plan = <<>>

\* --------------------------------------------------------------- C23
\* C23: every plan executeCycle passes to tc_->setPlan was computed for
\* the goal that is active then, and a plan computed for an earlier goal
\* does not move state_ to CONTROLLING while a later goal is active.
C23_PlanForActiveGoal ==
  /\ [][(fsm_pc = "swap" /\ fsm_pc' # "swap")
          => controller_plan_'.goal # "stale"]_vars
  /\ [][(planner_pc = "got_lock" /\ planner_pc' # "got_lock"
           /\ planner_plan_.goal = "stale" /\ outcome = "active")
          => state_' = state_]_vars

\* --------------------------------------------------------------- C24
\* C24: after a successful planning attempt the planner thread writes
\* CONTROLLING to state_ only if state_ is PLANNING then; a CLEARING set
\* by the control loop is left for the next dispatch.
C24_ControllingOnlyFromPlanning ==
  [][(planner_pc = "got_lock" /\ planner_pc' # "got_lock"
       /\ state_ # "PLANNING")
      => state_' = state_]_vars

\* --------------------------------------------------------------- C25
\* C25: no step of the planner thread writes state_, recovery_trigger_ or
\* a timing anchor, and none publishes a velocity: only the control loop
\* does.
C25_PlannerOnlyAdvises ==
  [][planThread
      => UNCHANGED <<state_, recovery_trigger_, agev, pubs, vel_last>>]_vars

\* --------------------------------------------------------------- C26
\* C26: planner_goal_, runPlanner_ and planning_retries_ are written only
\* by a thread that holds planner_mutex_, so none of them changes in a
\* step of one thread while another thread is inside its critical section:
\* a step that changes one of them either takes the free mutex or is a
\* step of the thread that holds it.
C26_SessionFieldsUnderMutex ==
  [][(planning_retries_' # planning_retries_
        \/ runPlanner_' # runPlanner_
        \/ planner_goal_' # planner_goal_)
      => \/ planner_mutex_ = "free"
         \/ planner_mutex_ = "planner" /\ planner_pc' # planner_pc
         \/ planner_mutex_ = "reconf" /\ reconf_pc' # reconf_pc]_vars

\* --------------------------------------------------------------- C27
\* C27: the planner thread does not give up for planner_patience_ (state_
\* = CLEARING with the retry limit not reached) while executeCb is between
\* the acceptance of a goal and the reset of that goal's anchors, where no
\* time has passed since the acceptance: the failed attempt is judged
\* against the new goal's last_valid_plan_.
C27_PatienceCountsFromAcceptance ==
  [][(/\ planner_pc = "fail_lock" /\ planner_pc' = "fail_pub"
      /\ state_' = "CLEARING"
      /\ planning_retries_' <= U32(max_planning_retries_))
     => fsm_pc \notin {"cb_lock", "cb_anchors", "pre_lock",
                       "pre_anchors"}]_vars

C30_PreemptionBeatsGoalReached ==
  [][(fsm_pc = "dispatch" /\ cyc = "newgoal") => cyc' # "succ"]_vars

\* --------------------------------------------------------------- C31
\* C31: a cycle that ends with as_->setSucceeded has not passed a new plan
\* to tc_->setPlan before: the goal-reached test comes first and the new
\* plan is dropped.
C31_GoalReachedBeforeNewPlan ==
  [][(fsm_pc = "dispatch" /\ cyc' = "succ") => ~hist.taken]_vars

\* --------------------------------------------------------------- C32
\* C32: when executeCb accepts a goal and starts its session, state_ is
\* PLANNING and recovery_index_ is 0, however the session before ended.
C32_SessionStartsReset ==
  [][(fsm_pc = "idle" /\ fsm_pc' = "cb_lock")
      => state_' = "PLANNING" /\ recovery_index_' = 0]_vars

\* --------------------------------------------------------------- C33
\* C33: when a recovery behaviour's runBehavior() is entered, the last
\* velocity command published is a zero command.
C33_StoppedWhenRecoveryRuns ==
  [][(fsm_pc = "dispatch" /\ fsm_pc' = "clr_after")
      => vel_last = "zero"]_vars

\* --------------------------------------------------------------- C34
\* C34: when executeCycle dispatches on state_ = CLEARING and the planner
\* thread is the one that wrote CLEARING last (it has not yet left its
\* critical section), recovery_trigger_ is PLANNING_R.
C34_TriggerNamesCause ==
  [][(/\ fsm_pc = "dispatch" /\ fsm_pc' # "dispatch"
      /\ state_ = "CLEARING" /\ planner_pc = "fail_pub")
     => recovery_trigger_ = "PLANNING_R"]_vars

\* --------------------------------------------------------------- C35
\* C35: whenever new_global_plan_ is true, latest_plan_ points to a
\* complete, non-empty path of the planner thread, and the vector
\* executeCycle passes to tc_->setPlan is such a path.
C35_FlagMeansPlan ==
  /\ [](new_global_plan_ => latest_plan_.k = "plan")
  /\ [][(fsm_pc = "swap" /\ fsm_pc' # "swap")
        => controller_plan_'.k = "plan"]_vars

\* --------------------------------------------------------------- C36
\* C36: the planner thread leaves planner_cond_.wait() for a planning
\* attempt only with runPlanner_ set and, when it went to sleep on the
\* pacing timer (wait_for_wake), only after the timer's period has passed;
\* with planner_frequency_ <= 0 a successful attempt is not followed by
\* another one.
C36_AttemptsArePaced ==
  /\ [][(planner_pc # "making" /\ planner_pc' = "making") => runPlanner_']_vars
  /\ [][(planner_pc = "waiting" /\ planner_pc' = "making" /\ wait_for_wake)
        => start_age = 1]_vars
  /\ [][(planner_pc = "got_lock" /\ planner_frequency_ <= 0)
        => planner_pc' # "making"]_vars

\* --------------------------------------------------------------- C37
\* C37: when executeCycle takes planner_mutex_ to wake the planner thread
\* it holds no costmap mutex.
C37_NoSessionLockUnderCostmapLock ==
  [][(fsm_pc = "wake_lock" /\ fsm_pc' # "wake_lock")
      => \A c \in Costmaps : "executeCycle" \notin CostmapHolders(c)]_vars

C39_SwapUnderSessionMutex ==
  /\ [](reconf_pc \in {"g_reset", "l_lock", "l_reset"}
          => planner_mutex_ = "reconf")
  /\ [][(reconf_pc \in {"g_reset", "l_lock", "l_reset"}
           /\ reconf_pc' = reconf_pc)
          => /\ planner_plan_' = planner_plan_
             /\ latest_plan_' = latest_plan_
             /\ new_global_plan_' = new_global_plan_]_vars

\* --------------------------------------------------------------- C40
\* C40: no lock is held across a call of a plugin: the planner thread holds
\* no costmap mutex while planner_->makePlan runs, and the control loop
\* holds neither configuration_mutex_ nor the controller costmap's mutex in
\* the steps that call tc_->setPlan, tc_->isGoalReached,
\* tc_->computeVelocityCommands or runBehavior.
C40_NoLockAcrossExternalCalls ==
  /\ [](planner_pc = "making" => "planThread" \notin CostmapHolders("planner"))
  /\ [][(/\ fsm_pc' # fsm_pc
         /\ \/ fsm_pc = "swap"
            \/ fsm_pc = "dispatch" /\ state_ = "CONTROLLING"
            \/ fsm_pc = "dispatch" /\ fsm_pc' = "clr_after")
          => configuration_mutex_ # "fsm"]_vars
====
